---- MODULE Spec2Model ----
(***************************************************************************)
(* RadioRCA: the geospatial RCA engine (services/analytics/geospatial.py)  *)
(* with the column mapper (services/analytics/radio_utils.py) and the      *)
(* tilt resolver (services/rca_utils.py) it calls, the table lookup        *)
(* (services/rca_utils.py) and the format sniffer                          *)
(* (infrastructure/csv_reader.py).                                         *)
(*                                                                         *)
(* Units.  Angles are integers in tenths of a degree (the code rounds      *)
(* offsets and tilts to one decimal).  Distances are integers in metres;   *)
(* round(distance_km, 2) is a multiple of 10 m.  Heights are decimetres.   *)
(* Text (headers, site ids, cell names) is a sequence of one-character     *)
(* strings, so that "contains", "last character" and lower-casing are      *)
(* computed and not assumed.                                               *)
(***************************************************************************)
EXTENDS Integers, Sequences, FiniteSets, TLC

VARIABLES
    pc,            \* where analyze is: "loaded", "mapping", ..., "done"
    is_web,        \* ctx['is_web']
    site_limit,    \* site_limit after lines 49-58
    file_path,     \* what get_latest_clean_file returned: None or "file"
    df,            \* the design table read from file_path: [cols, rows]
    cm,            \* the latest clean configuration table, or None
    colmap,        \* lat_col, lon_col, azi_col, site_col, cell_col, hba_col
    distance_km,   \* df['distance_km'], one entry per row (metres)
    sites,         \* unique_nearest_sites
    cells,         \* analysis_results["cells"]
    top_distance,  \* analysis_results["top_distance"]
    top_offset,    \* analysis_results["top_offset"]
    verdict,       \* analysis_results["verdict"]: [kind, site, cell] or None
    cli_verdict,   \* the verdict printed at lines 236-243 (CLI mode)
    outcome,       \* how the call ended: [kind, exc, line]
    fn,            \* the function a run calls: "analyze", or a helper by name
    arg,           \* the arguments and the files of a call
    ret            \* what a helper called on its own returned, or its progress

engine == <<pc, is_web, site_limit, file_path, df, cm, colmap, distance_km,
            sites, cells, top_distance, top_offset, verdict, cli_verdict, outcome>>

vars == <<engine, fn, arg, ret>>

None == "None"

----------------------------------------------------------------------------
(* Values of a table field, as pandas hands them to the code.              *)

Num(n) == [t |-> "num", v |-> n, s |-> <<>>]
Str(s) == [t |-> "str", v |-> 0, s |-> s]
NaN    == [t |-> "nan", v |-> 0, s |-> <<>>]

IsNum(x) == x.t = "num"
IsNaN(x) == x.t = "nan"
IsStr(x) == x.t = "str"

(* str(x) for a field value: the text itself, "nan" for a missing value.   *)
PyStr(x) == IF IsStr(x) THEN x.s ELSE IF IsNaN(x) THEN <<"n", "a", "n">> ELSE <<"#">>

----------------------------------------------------------------------------
(* Text helpers.                                                           *)

LowerLetters == <<"a","b","c","d","e","f","g","h","i","j","k","l","m",
                  "n","o","p","q","r","s","t","u","v","w","x","y","z">>
UpperLetters == <<"A","B","C","D","E","F","G","H","I","J","K","L","M",
                  "N","O","P","Q","R","S","T","U","V","W","X","Y","Z">>

UpperChar(c) ==
    IF \E i \in 1..26 : LowerLetters[i] = c
    THEN UpperLetters[CHOOSE i \in 1..26 : LowerLetters[i] = c]
    ELSE c

LowerChar(c) ==
    IF \E i \in 1..26 : UpperLetters[i] = c
    THEN LowerLetters[CHOOSE i \in 1..26 : UpperLetters[i] = c]
    ELSE c

(* str.lower() *)
Lower(s) == [i \in 1..Len(s) |-> LowerChar(s[i])]

(* key in text *)
Contains(text, key) ==
    \E i \in 0..(Len(text) - Len(key)) :
        \A j \in 1..Len(key) : text[i + j] = key[j]


(* The minimum of a non-empty set of integers. *)
SetMin(S) == CHOOSE x \in S : \A y \in S : x <= y

Abs(x) == IF x < 0 THEN 0 - x ELSE x

----------------------------------------------------------------------------
(* Column mapper: radio_utils.find_standard_col.                           *)

(* An absent column name (Python None), comparable with header texts.      *)
NoCol == <<"<None>">>

mapping(target_type) ==
    CASE target_type = "lat" -> <<<<"l", "a", "t">>,
            <<"l", "a", "t", "i", "t", "u", "d", "e">>,
            <<"y", "_", "c", "o", "o", "r", "d">>,
            <<"n", "o", "r", "t", "h">>>>
      [] target_type = "lon" -> <<<<"l", "o", "n">>,
            <<"l", "o", "n", "g">>,
            <<"l", "o", "n", "g", "i", "t", "u", "d", "e">>,
            <<"x", "_", "c", "o", "o", "r", "d">>,
            <<"e", "a", "s", "t">>>>
      [] target_type = "azi" -> <<<<"a", "z", "i">>,
            <<"d", "i", "r">>,
            <<"o", "r", "i", "e", "n", "t", "a", "t", "i", "o", "n">>,
            <<"a", "n", "g", "l", "e">>,
            <<"b", "e", "a", "m">>>>
      [] target_type = "site" -> <<<<"s", "i", "t", "e">>,
            <<"n", "o", "d", "e">>,
            <<"e", "n", "o", "d", "e", "b">>,
            <<"s", "i", "t", "e", "_", "i", "d">>>>
      [] target_type = "cell" -> <<<<"c", "e", "l", "l">>,
            <<"s", "e", "c", "t", "o", "r">>,
            <<"a", "n", "t", "e", "n", "n", "a">>,
            <<"c", "e", "l", "l", "_", "n", "a", "m", "e">>>>
      [] target_type = "hba" -> <<<<"h", "b", "a">>,
            <<"h", "e", "i", "g", "h", "t">>,
            <<"m", "h", "a">>,
            <<"a", "l", "t", "i", "t", "u", "d", "e">>>>
      [] target_type = "tilt" -> <<<<"t", "i", "l", "t">>,
            <<"e", "t", "i", "l", "t">>,
            <<"e", "-", "t", "i", "l", "t">>,
            <<"e", "l", "e", "c", "t", "_", "t", "i", "l", "t">>>>
      [] target_type = "arfcn" -> <<<<"a", "r", "f", "c", "n">>,
            <<"e", "a", "r", "f", "c", "n", "d", "l">>,
            <<"e", "a", "r", "f", "c", "n">>,
            <<"s", "s", "b", "f", "r", "e", "q", "u", "e", "n", "c", "y">>,
            <<"s", "s", "b", "_", "f", "r", "e", "q">>>>
      [] OTHER -> <<>>

(* Lines 19-23 with the loops exchanged: the keywords in list order, and   *)
(* for each the leftmost header it occurs in.                              *)
find_standard_col_by_keyword(df_columns, target_type, default) ==
    LET keywords == mapping(target_type)
        lowered  == [i \in 1..Len(df_columns) |-> Lower(df_columns[i])]
        hitk     == {k \in 1..Len(keywords) :
                        \E i \in 1..Len(lowered) : Contains(lowered[i], keywords[k])}
    IN  IF hitk = {} THEN default
        ELSE df_columns[SetMin({i \in 1..Len(lowered) :
                                   Contains(lowered[i], keywords[SetMin(hitk)])})]

(* for col in df_columns: if any(key.lower() in col.lower() ...): return col *)
find_standard_col(df_columns, target_type, default) ==
    LET keywords == mapping(target_type)
        keys     == {Lower(keywords[k]) : k \in 1..Len(keywords)}
        hits     == {i \in 1..Len(df_columns) :
                        \E col \in {Lower(df_columns[i])} :
                            \E key \in keys : Contains(col, key)}
    IN  IF hits # {} THEN df_columns[SetMin(hits)] ELSE default

(* row[col]: the position of the column called `name`.                     *)
ColIndex(cols, name) == SetMin({i \in 1..Len(cols) : cols[i] = name})

----------------------------------------------------------------------------
(* Geospatial calculator: geospatial.py lines 7-41.                        *)
(*                                                                         *)
(* Coordinates are points of a grid around the user: latitude index k is   *)
(* 35.837097 + k * 0.0045 degrees, longitude index j is 10.624853 +        *)
(* j * 0.0055 degrees.  The trigonometry of haversine, calculate_bearing   *)
(* and calculate_required_tilt is tabulated with the source's formulas on  *)
(* the grid points and heights the tables below use.                       *)

(* <<|dlat|, |dlon|, distance in millimetres>> *)
HaversineTable ==
    { <<0, 0, 0>>, <<1, 0, 500377>>, <<0, 1, 495792>>,
      <<2, 0, 1000754>>, <<10, 0, 5003772>> }

haversine(lat1, lon1, lat2, lon2) ==
    LET e == CHOOSE e \in HaversineTable :
                 e[1] = Abs(lat2 - lat1) /\ e[2] = Abs(lon2 - lon1)
    IN  e[3]

(* <<lat1 - lat2, lon1 - lon2, bearing from point 1 to point 2 in 1/10000 degree>> *)
BearingTable ==
    { <<0, 0, 0>>, <<1, 0, 1800000>>, <<0 - 1, 0, 0>>,
      <<0, 1, 2700016>>, <<0, 0 - 1, 899984>>,
      <<2, 0, 1800000>>, <<10, 0, 1800000>> }

calculate_bearing(lat1, lon1, lat2, lon2) ==
    LET e == CHOOSE e \in BearingTable :
                 e[1] = lat1 - lat2 /\ e[2] = lon1 - lon2
    IN  e[3]

(* An undefined offset (Python None), comparable with tenths of a degree.  *)
NoOffset == 0 - 1

(* azimuth: NoAzimuth (None) or a field value; bearing in 1/10000 degree.  *)
(* Returns tenths of a degree, or NoOffset.                                *)
NoAzimuth == [t |-> "none", v |-> 0, s |-> <<>>]

(* Lines 22-25 without the fold of lines 23-24 *)
calculate_angle_offset_unfolded(azimuth, bearing) ==
    IF azimuth = NoAzimuth \/ IsNaN(azimuth)
    THEN NoOffset
    ELSE ((Abs(azimuth.v * 1000 - bearing) % 3600000) + 500) \div 1000

calculate_angle_offset(azimuth, bearing) ==
    IF azimuth = NoAzimuth \/ IsNaN(azimuth)
    THEN NoOffset
    ELSE LET d0   == Abs(azimuth.v * 1000 - bearing) % 3600000
             diff == IF d0 > 1800000 THEN 3600000 - d0 ELSE d0
         IN  (diff + 500) \div 1000

(* <<height in decimetres, distance in millimetres,                        *)
(*   round(degrees(arctan2(height_m, distance_m)), 1) in tenths>>          *)
ArctanTable ==
    { <<260, 500377, 30>>, <<270, 500377, 31>>, <<300, 500377, 34>>,
      <<450, 500377, 51>>, <<530, 500377, 60>>, <<535, 500377, 61>>,
      <<260, 495792, 30>>, <<270, 495792, 31>>, <<300, 495792, 35>>,
      <<450, 495792, 52>>, <<530, 495792, 61>>, <<535, 495792, 62>>,
      <<260, 1000754, 15>>, <<270, 1000754, 15>>, <<300, 1000754, 17>>,
      <<450, 1000754, 26>>, <<530, 1000754, 30>>, <<535, 1000754, 31>>,
      <<260, 5003772, 3>>, <<270, 5003772, 3>>, <<300, 5003772, 3>>,
      <<450, 5003772, 5>>, <<530, 5003772, 6>>, <<535, 5003772, 6>>,
      <<260, 50000, 275>>, <<270, 50000, 284>>, <<300, 50000, 310>>,
      <<450, 50000, 420>>, <<530, 50000, 467>>, <<535, 50000, 469>>,
      <<260, 200000, 74>>, <<270, 200000, 77>>, <<300, 200000, 85>>,
      <<450, 200000, 127>>, <<530, 200000, 148>>, <<535, 200000, 150>> }

(* Line 9 with < for <=: at distance 0 line 13 gives arctan2(h, 0) = 90    *)
calculate_required_tilt_unguarded(height_m, distance) ==
    IF distance < 0 THEN 0
    ELSE IF distance = 0 THEN 900
    ELSE LET e == CHOOSE e \in ArctanTable : e[1] = height_m /\ e[2] = distance
         IN  e[3]

calculate_required_tilt(height_m, distance) ==
    IF distance <= 0 THEN 0
    ELSE LET e == CHOOSE e \in ArctanTable : e[1] = height_m /\ e[2] = distance
         IN  e[3]

(* round(row['distance_km'], 2), in units of 10 m *)
Round2(distance) == (distance + 5000) \div 10000

----------------------------------------------------------------------------
(* Per-cell classification: analyze, lines 134-155.                        *)

(* Lines 137-142 with the bounds 3 and 6 left out of the lower class *)
VStatusStrict(v_delta) ==
    IF v_delta < 30 THEN "V-OK"
    ELSE IF v_delta < 60 THEN "EDGE"
    ELSE "MISSED"

(* v_delta in tenths of a degree *)
VStatus(v_delta) ==
    IF v_delta <= 30 THEN "V-OK"
    ELSE IF v_delta <= 60 THEN "EDGE"
    ELSE "MISSED"

(* Lines 146-155 with the bounds 30, 70 and 120 left out of the lower class *)
HStatusStrict(offset) ==
    IF offset = NoOffset THEN "N/A"
    ELSE IF offset < 300 THEN "DIRECT"
    ELSE IF offset < 700 THEN "SIDE"
    ELSE IF offset < 1200 THEN "Fare SIDE"
    ELSE "BACK"

(* offset in tenths of a degree, or NoOffset *)
HStatus(offset) ==
    IF offset = NoOffset THEN "N/A"
    ELSE IF offset <= 300 THEN "DIRECT"
    ELSE IF offset <= 700 THEN "SIDE"
    ELSE IF offset <= 1200 THEN "Fare SIDE"
    ELSE "BACK"

----------------------------------------------------------------------------
(* Parameter resolver: rca_utils.fetch_ericsson_e_tilt_group.              *)

(* sector_map.get(last_char): 0 stands for None *)
sector_map(last_char) ==
    CASE last_char \in {"X", "O", "L", "A"} -> 1
      [] last_char \in {"Y", "P", "M", "B"} -> 2
      [] last_char \in {"Z", "Q", "N", "C"} -> 3
      [] OTHER -> 0

(* band_map.get(last_char): the empty text stands for None *)
band_map(last_char) ==
    CASE last_char \in {"X", "Y", "Z"} -> <<"L", "2", "1", "0", "0">>
      [] last_char \in {"L", "M", "N"} -> <<"L", "1", "8", "0", "0">>
      [] last_char \in {"O", "P", "Q"} -> <<"L", "8", "0", "0">>
      [] OTHER -> <<>>

(* No configuration file in the archive (cm_path is None).                 *)
NoCm == [cols |-> {}, rows |-> <<>>, file |-> FALSE]

(* A float NaN tilt, comparable with tenths of a degree.                   *)
NaNTilt == 0 - 9999

TiltUnavailable == [kind |-> "none", e_tilt |-> 0, band_id |-> NaN]

(* Series.str.contains(pat) searches for pat as a regular expression       *)
(* (regex=True is the default).  Of the syntax: "." stands for any one     *)
(* character, and "(" with no ")" does not compile (re.error).             *)
RegexError(pat) == \E j \in 1..Len(pat) : pat[j] = "("

RegexFound(text, pat) ==
    \E start \in 0..(Len(text) - Len(pat)) :
        \A j \in 1..Len(pat) : pat[j] = "." \/ text[start + j] = pat[j]

(* float(value) / 10 of a field kept in tenths of a degree, as tenths of a *)
(* degree: the field 40 is 4.0 degrees.                                    *)
TiltOfField(v) == (10 * v) \div 10

(* The body of the try block, lines 132-154, on the table cmt.             *)
(* An exception raised inside it is caught at line 155 and gives None.     *)
TiltLookup(cmt, site_id, target_sector, target_band) ==
    IF "NodeId" \notin cmt.cols THEN TiltUnavailable
    ELSE IF RegexError(PyStr(site_id)) THEN TiltUnavailable
    ELSE
    LET site_data == SelectSeq(cmt.rows,
                        LAMBDA r : RegexFound(PyStr(r.NodeId), PyStr(site_id)))
    IN
    IF site_data = <<>> THEN TiltUnavailable
    ELSE IF "AntennaUnitGroupId" \notin cmt.cols
            \/ "AntennaNearUnitId" \notin cmt.cols THEN TiltUnavailable
    ELSE IF \E i \in 1..Len(site_data) : IsStr(site_data[i].AntennaUnitGroupId)
         THEN TiltUnavailable      \* astype(float) raises ValueError
    ELSE IF \A i \in 1..Len(site_data) : IsNum(site_data[i].AntennaNearUnitId)
         THEN TiltUnavailable      \* .str on a numeric column raises
    ELSE
    LET match == SelectSeq(site_data,
                    LAMBDA r : /\ IsNum(r.AntennaUnitGroupId)
                               /\ r.AntennaUnitGroupId.v = target_sector
                               /\ IsStr(r.AntennaNearUnitId)
                               /\ RegexFound(r.AntennaNearUnitId.s, target_band))
    IN
    IF match = <<>> THEN TiltUnavailable
    ELSE
    LET row  == match[1]
        tilt == IF "electricalAntennaTilt" \in cmt.cols
                THEN row.electricalAntennaTilt ELSE Num(0)
    IN
    IF IsStr(tilt) THEN TiltUnavailable      \* float() raises ValueError
    ELSE [kind    |-> "ok",
          e_tilt  |-> IF IsNaN(tilt) THEN NaNTilt ELSE TiltOfField(tilt.v),
          band_id |-> row.AntennaNearUnitId]

(* Result kinds: "ok" (a dict), "none" (None), "raise" (IndexError from    *)
(* str(cell_name)[-1] on an empty name, outside the try block).            *)
fetch_ericsson_e_tilt_group(site_id, cell_name, cmt) ==
    LET name == PyStr(cell_name) IN
    IF Len(name) = 0
    THEN [kind |-> "raise", e_tilt |-> 0, band_id |-> NaN]
    ELSE
    LET last_char     == UpperChar(name[Len(name)])
        target_sector == sector_map(last_char)
        target_band   == band_map(last_char)
    IN
    IF target_sector = 0 \/ target_band = <<>> THEN TiltUnavailable
    ELSE IF ~cmt.file THEN TiltUnavailable
    ELSE TiltLookup(cmt, site_id, target_sector, target_band)

----------------------------------------------------------------------------
(* Sequence helpers used by the engine.                                    *)

(* seq[:n] of Python, n of either sign *)
Slice(seq, n) ==
    IF n >= 0
    THEN SubSeq(seq, 1, IF n < Len(seq) THEN n ELSE Len(seq))
    ELSE SubSeq(seq, 1, IF Len(seq) + n > 0 THEN Len(seq) + n ELSE 0)

(* pandas unique(): the values in order of first appearance *)
RECURSIVE Unique(_)
Unique(seq) ==
    IF seq = <<>> THEN <<>>
    ELSE LET init == Unique(SubSeq(seq, 1, Len(seq) - 1))
             last == seq[Len(seq)]
         IN  IF \E i \in 1..Len(init) : init[i] = last
             THEN init ELSE Append(init, last)

(* sorted(seq, key=...): stable, keys[i] is the key of seq[i] *)
StableSort(seq, keys) ==
    LET n      == Len(seq)
        pos(i) == 1 + Cardinality({j \in 1..n :
                         keys[j] < keys[i] \/ (keys[j] = keys[i] /\ j < i)})
    IN  [p \in 1..n |-> seq[CHOOSE i \in 1..n : pos(i) = p]]

(* The elements of a finite set of integers, in increasing order *)
Ascending(S) ==
    [k \in 1..Cardinality(S) |->
        CHOOSE x \in S : Cardinality({y \in S : y < x}) = k - 1]

(* str.strip() *)
Strip(s) ==
    LET keep == {i \in 1..Len(s) : s[i] # " "}
    IN  IF keep = {} THEN <<>>
        ELSE SubSeq(s, SetMin(keep), CHOOSE b \in keep : \A k \in keep : k <= b)

(* The orders sort_values('distance_km') may return: the default sort kind *)
(* is quicksort, which is not stable, so rows of equal distance come in    *)
(* any order.                                                              *)
SortOrders(dist) ==
    LET n == Len(dist) IN
    {p \in [1..n -> 1..n] :
        /\ \A i, j \in 1..n : i # j => p[i] # p[j]
        /\ \A i \in 1..(n - 1) : dist[p[i]] <= dist[p[i + 1]]}

----------------------------------------------------------------------------
(* The engine: geospatial.analyze, from the return of the table lookup at  *)
(* line 60 to the return at line 245.                                      *)

(* ctx['latitude'], ctx['longitude']: the user, the origin of the grid *)
UserPos == [lat |-> 0, lon |-> 0]

(* hba when the height is absent, line 121: 30.0 m *)
DefaultHba == 300
(* e_tilt when the resolver gives nothing, line 127: 0.0 degrees *)
DefaultETilt == 0
(* the length of top_distance and top_offset, lines 194 and 197 *)
TopN == 3
(* the sort key of an undefined offset, lines 197 and 200: 999 degrees *)
NoneOffsetKey == 9990

NoMap == [lat |-> NoCol, lon |-> NoCol, azi |-> NoCol, site |-> NoCol,
          cell |-> NoCol, hba |-> NoCol, tilt |-> NoCol, arfcn |-> NoCol]

NoVerdict == [kind |-> "", site |-> <<>>, cell |-> <<>>]

(* How the call ended: it returned analysis_results, it returned None, or  *)
(* it raised the exception `exc` at `line` of geospatial.py.               *)
Running         == [kind |-> "running", exc |-> "", line |-> 0]
Returned        == [kind |-> "result",  exc |-> "", line |-> 245]
ReturnedNone    == [kind |-> "none",    exc |-> "", line |-> 63]
Raised(e, line) == [kind |-> "raise",   exc |-> e,  line |-> line]

(* row[col] on the table t *)
Field(t, row, col) == row[ColIndex(t.cols, col)]

(* Lines 61-66: no file ends the call with `return print(...)`, that is    *)
(* None; otherwise the table is read.                                      *)
CheckFile ==
    /\ pc = "loading"
    /\ IF file_path = None
       THEN /\ pc' = "error"
            /\ outcome' = ReturnedNone
       ELSE /\ pc' = "mapping"
            /\ outcome' = outcome
    /\ UNCHANGED <<fn, arg, ret, is_web, site_limit, file_path, df, cm, colmap, distance_km,
                   sites, cells, top_distance, top_offset, verdict, cli_verdict>>

(* Lines 69-81 *)
MappedColumns(columns) ==
    LET site_col == find_standard_col(columns, "site", columns[1])
    IN  [lat   |-> find_standard_col(columns, "lat", NoCol),
         lon   |-> find_standard_col(columns, "lon", NoCol),
         azi   |-> find_standard_col(columns, "azi", NoCol),
         site  |-> site_col,
         cell  |-> find_standard_col(columns, "cell", site_col),
         hba   |-> find_standard_col(columns, "hba", NoCol),
         tilt  |-> find_standard_col(columns, "tilt", NoCol),
         arfcn |-> find_standard_col(columns, "arfcn", NoCol)]

(* The test of lines 84-87 with `and` for `or` *)
MappingFailsBoth(m) == m.lat = NoCol /\ m.lon = NoCol

(* Lines 84-87: `if not lat_col or not lon_col: raise ValueError(...)` *)
MappingFails(m) == m.lat = NoCol \/ m.lon = NoCol

(* Lines 69-87 *)
MapColumns ==
    /\ pc = "mapping"
    /\ LET columns == [i \in 1..Len(df.cols) |-> Lower(Strip(df.cols[i]))]
           m       == MappedColumns(columns)
       IN  /\ df' = [df EXCEPT !.cols = columns]
           /\ colmap' = m
           /\ IF MappingFails(m)
              THEN /\ pc' = "error"
                   /\ outcome' = Raised("ValueError", 87)
              ELSE /\ pc' = "computing"
                   /\ outcome' = outcome
    /\ UNCHANGED <<fn, arg, ret, is_web, site_limit, file_path, cm, distance_km,
                   sites, cells, top_distance, top_offset, verdict, cli_verdict>>

(* float(r[lat_col]), float(r[lon_col]) raise ValueError on text *)
CoordUnparsable(t, m, row) ==
    IsStr(Field(t, row, m.lat)) \/ IsStr(Field(t, row, m.lon))

(* Line 90: the distance of every row of the table, or ValueError *)
ComputeDistances ==
    /\ pc = "computing"
    /\ IF \E i \in 1..Len(df.rows) : CoordUnparsable(df, colmap, df.rows[i])
       THEN /\ pc' = "error"
            /\ outcome' = Raised("ValueError", 90)
            /\ distance_km' = distance_km
       ELSE /\ pc' = "selecting"
            /\ outcome' = outcome
            /\ distance_km' =
                 [i \in 1..Len(df.rows) |->
                     haversine(UserPos.lat, UserPos.lon,
                               Field(df, df.rows[i], colmap.lat).v,
                               Field(df, df.rows[i], colmap.lon).v)]
    /\ UNCHANGED <<fn, arg, ret, is_web, site_limit, file_path, df, cm, colmap,
                   sites, cells, top_distance, top_offset, verdict, cli_verdict>>

(* Line 100: df.sort_values('distance_km')[site_col].unique()[:site_limit] *)
NearestSites(order) ==
    Slice(Unique([k \in 1..Len(order) |-> Field(df, df.rows[order[k]], colmap.site)]),
          site_limit)

SelectSites ==
    /\ pc = "selecting"
    /\ \E order \in SortOrders(distance_km) : sites' = NearestSites(order)
    /\ pc' = "classifying"
    /\ UNCHANGED <<fn, arg, ret, is_web, site_limit, file_path, df, cm, colmap, distance_km,
                   cells, top_distance, top_offset, verdict, cli_verdict, outcome>>


(* df[site_col] == site: a missing value equals nothing *)
SameSite(a, b) == ~IsNaN(a) /\ a = b

(* Lines 102-107: the rows the loops visit, site by site in the order of   *)
(* `sites`, the rows of one site in table order.                           *)
RECURSIVE VisitOrder(_)
VisitOrder(ss) ==
    IF ss = <<>> THEN <<>>
    ELSE LET mine == {i \in 1..Len(df.rows) :
                         SameSite(Field(df, df.rows[i], colmap.site), ss[1])}
         IN  Ascending(mine) \o VisitOrder(Tail(ss))

(* Line 113 *)
AzimuthOf(i) ==
    IF colmap.azi # NoCol THEN Field(df, df.rows[i], colmap.azi) ELSE NoAzimuth

(* Line 121, in decimetres *)
HbaOf(i) ==
    IF colmap.hba # NoCol /\ ~IsNaN(Field(df, df.rows[i], colmap.hba))
    THEN Field(df, df.rows[i], colmap.hba).v
    ELSE DefaultHba

(* Line 126 *)
TiltGroupOf(i) ==
    fetch_ericsson_e_tilt_group(Field(df, df.rows[i], colmap.site),
                                Field(df, df.rows[i], colmap.cell), cm)

(* Lines 127-130 *)
ETiltOf(i) ==
    IF TiltGroupOf(i).kind = "ok" THEN TiltGroupOf(i).e_tilt ELSE DefaultETilt

(* Lines 134-142: abs(req_tilt - e_tilt) classified; every comparison with *)
(* a NaN is false, which leaves the last branch.                           *)
VStatusOf(req_tilt, e_tilt) ==
    IF e_tilt = NaNTilt THEN "MISSED" ELSE VStatus(Abs(req_tilt - e_tilt))

(* The exception the loop body raises on row i, Running if none:           *)
(* np.isnan of a text azimuth (line 20), float() of a text height (line    *)
(* 121), str(cell_name)[-1] of an empty name (line 107 of rca_utils.py),   *)
(* int() of a missing azimuth (line 165).                                  *)
RowError(i) ==
    IF IsStr(AzimuthOf(i)) THEN Raised("TypeError", 114)
    ELSE IF colmap.hba # NoCol /\ IsStr(Field(df, df.rows[i], colmap.hba))
         THEN Raised("ValueError", 121)
    ELSE IF TiltGroupOf(i).kind = "raise" THEN Raised("IndexError", 126)
    ELSE IF colmap.azi # NoCol /\ IsNaN(AzimuthOf(i)) THEN Raised("ValueError", 165)
    ELSE Running

(* Lines 108-172: cell_data of row i.  `row` is the row's index label.     *)
CellData(i) ==
    LET row           == df.rows[i]
        lat           == Field(df, row, colmap.lat).v
        lon           == Field(df, row, colmap.lon).v
        angle_to_user == calculate_bearing(lat, lon, UserPos.lat, UserPos.lon)
        offset        == calculate_angle_offset(AzimuthOf(i), angle_to_user)
        req_tilt      == calculate_required_tilt(HbaOf(i), distance_km[i])
    IN  [row       |-> i,
         site_id   |-> PyStr(Field(df, row, colmap.site)),
         cell_name |-> PyStr(Field(df, row, colmap.cell)),
         site_lat  |-> lat,
         site_lon  |-> lon,
         distance  |-> Round2(distance_km[i]),
         azimuth   |-> IF colmap.azi # NoCol THEN AzimuthOf(i).v \div 10 ELSE 0,
         bearing   |-> angle_to_user \div 10000,
         offset    |-> offset,
         h_status  |-> HStatus(offset),
         req_tilt  |-> req_tilt,
         e_tilt    |-> ETiltOf(i),
         v_status  |-> VStatusOf(req_tilt, ETiltOf(i))]

(* Lines 102-190: both loops; the first exception ends the call.           *)
ProcessCells ==
    /\ pc = "classifying"
    /\ LET order == VisitOrder(sites)
           bad   == {k \in 1..Len(order) : RowError(order[k]) # Running}
       IN  IF bad # {}
           THEN /\ pc' = "error"
                /\ outcome' = RowError(order[SetMin(bad)])
                /\ cells' = cells
           ELSE /\ pc' = "ranking"
                /\ outcome' = outcome
                /\ cells' = [k \in 1..Len(order) |-> CellData(order[k])]
    /\ UNCHANGED <<fn, arg, ret, is_web, site_limit, file_path, df, cm, colmap, distance_km,
                   sites, top_distance, top_offset, verdict, cli_verdict>>

(* key=lambda x: x['offset'] if x['offset'] is not None else 999 *)
OffsetKey(c) == IF c.offset # NoOffset THEN c.offset ELSE NoneOffsetKey

(* key=lambda x: x['distance'] *)
DistanceKey(c) == c.distance

(* Line 194 without the sort *)
TopByDistanceUnsorted(cs) == Slice(cs, TopN)

(* Line 194 *)
TopByDistance(cs) ==
    Slice(StableSort(cs, [k \in 1..Len(cs) |-> DistanceKey(cs[k])]), TopN)

(* Line 197 *)
TopByOffset(cs) ==
    Slice(StableSort(cs, [k \in 1..Len(cs) |-> OffsetKey(cs[k])]), TopN)

(* Lines 192-197 *)
Rank ==
    /\ pc = "ranking"
    /\ top_distance' = TopByDistance(cells)
    /\ top_offset' = TopByOffset(cells)
    /\ pc' = "verdict"
    /\ UNCHANGED <<fn, arg, ret, is_web, site_limit, file_path, df, cm, colmap, distance_km,
                   sites, cells, verdict, cli_verdict, outcome>>

(* Line 200: min(cells, key=...), the first cell with the least key *)
BestCell(cs) ==
    cs[SetMin({k \in 1..Len(cs) :
                  \A j \in 1..Len(cs) : OffsetKey(cs[k]) <= OffsetKey(cs[j])})]

(* Lines 204-209 with the vertical test ahead of the horizontal one *)
VerdictKindVerticalFirst(best_cell) ==
    IF best_cell.offset <= 300 /\ best_cell.v_status = "V-OK" THEN "Sweet Spot"
    ELSE IF best_cell.v_status # "V-OK" THEN "Vertical Mismatch"
    ELSE "Horizontal Mismatch"

(* Lines 204-209 *)
VerdictKind(best_cell) ==
    IF best_cell.offset <= 300 /\ best_cell.v_status = "V-OK" THEN "Sweet Spot"
    ELSE IF best_cell.offset > 300 THEN "Horizontal Mismatch"
    ELSE "Vertical Mismatch"

(* Lines 199-209: min() of no cells raises ValueError; None <= 30 raises   *)
(* TypeError.                                                              *)
Verdict ==
    /\ pc = "verdict"
    /\ IF cells = <<>>
       THEN /\ pc' = "error"
            /\ outcome' = Raised("ValueError", 200)
            /\ verdict' = verdict
       ELSE IF BestCell(cells).offset = NoOffset
       THEN /\ pc' = "error"
            /\ outcome' = Raised("TypeError", 204)
            /\ verdict' = verdict
       ELSE /\ pc' = "returning"
            /\ outcome' = outcome
            /\ verdict' = [kind |-> VerdictKind(BestCell(cells)),
                           site |-> BestCell(cells).site_id,
                           cell |-> BestCell(cells).cell_name]
    /\ UNCHANGED <<fn, arg, ret, is_web, site_limit, file_path, df, cm, colmap, distance_km,
                   sites, cells, top_distance, top_offset, cli_verdict>>

(* Lines 236-243, on the loop variables of the last cell visited *)
CliVerdict(last) ==
    LET offset  == last.offset
        nan     == last.e_tilt = NaNTilt
        v_delta == Abs(last.req_tilt - last.e_tilt)
    IN  IF offset <= 300 /\ ~nan /\ v_delta <= 30 THEN "Sweet Spot"
        ELSE IF offset > 300 /\ ~nan /\ v_delta <= 30 THEN "Horizontal Mismatch"
        ELSE IF offset <= 300 /\ ~nan /\ v_delta > 30 THEN "Vertical Mismatch"
        ELSE "Poor Coverage"

(* Lines 211-245: the CLI report, then `return analysis_results` *)
Return ==
    /\ pc = "returning"
    /\ cli_verdict' = IF is_web THEN "" ELSE CliVerdict(cells[Len(cells)])
    /\ outcome' = Returned
    /\ pc' = "done"
    /\ UNCHANGED <<fn, arg, ret, is_web, site_limit, file_path, df, cm, colmap, distance_km,
                   sites, cells, top_distance, top_offset, verdict>>

----------------------------------------------------------------------------
(* The tables the engine is run on.                                        *)

(* The most rows of a design table. *)
MaxRows == 4
(* The most rows of a table that has a malformed row or lacks a column. *)
MaxIrregularRows == 2
(* The largest site_limit a caller passes. *)
MaxLimit == 3

t_A == <<"A">>
t_B == <<"B">>
t_C == <<"C">>
t_P == <<"P">>

(* The header a design export gives each field, as the archive keeps it.   *)
HeaderOf(field) ==
    CASE field = "site" -> <<"S", "i", "t", "e", "_", "I", "D">>
      [] field = "cell" -> <<"C", "e", "l", "l", "_", "N", "a", "m", "e">>
      [] field = "lat"  -> <<"L", "a", "t", "i", "t", "u", "d", "e">>
      [] field = "lon"  -> <<"L", "o", "n", "g", "i", "t", "u", "d", "e">>
      [] field = "azi"  -> <<"A", "z", "i", "m", "u", "t", "h">>
      [] field = "hba"  -> <<" ", "H", "B", "A">>

FullSchema == <<"site", "cell", "lat", "lon", "azi", "hba">>

(* The column lists of the exports: all fields, or one field left out.     *)
Schemas ==
    { FullSchema,
      <<"site", "cell", "lat", "lon", "hba">>,
      <<"site", "cell", "lat", "lon", "azi">>,
      <<"site", "cell", "lon", "azi", "hba">>,
      <<"site", "cell", "lat", "azi", "hba">> }

DesignRow(site, cell, lat, lon, azi, hba) ==
    [site |-> Str(site), cell |-> Str(cell), lat |-> lat, lon |-> lon,
     azi |-> azi, hba |-> hba]

(* Rows that differ in site, distance, bearing, azimuth and height: two    *)
(* sites at the same distance, one site with rows at two distances, a row  *)
(* whose latitude is text, a row with no azimuth.                          *)
CoreRows ==
    { DesignRow(t_A, <<"A", "1", "X">>, Num(1), Num(0), Num(1800), Num(300)),
      DesignRow(t_B, <<"B", "1", "X">>, Num(0 - 1), Num(0), Num(400), Num(300)),
      DesignRow(t_A, <<"A", "2", "Y">>, Num(10), Num(0), Num(1800), NaN),
      DesignRow(t_C, <<"C", "1", "Q">>, Num(0), Num(1), Num(900), Num(450)),
      DesignRow(t_B, <<"B", "2", "Z">>, Num(2), Num(0), Num(1800), Num(530)),
      DesignRow(t_C, <<"C", "2", "q">>, Str(<<"n", "/", "a">>), Num(0), Num(0), Num(300)),
      DesignRow(t_A, <<"A", "3", "Z">>, Num(2), Num(0), NaN, Num(300)) }

(* One-row tables that sweep the class boundaries of offset and tilt.      *)
ProbeAzimuths == {1800, 1500, 1499, 1100, 1099, 600, 599, 0, 3500}
ProbeHeights  == {260, 270, 300, 530, 535}

ProbeRows ==
    { DesignRow(t_P, <<"P", "X">>, Num(1), Num(0), Num(a), Num(h)) :
        a \in ProbeAzimuths, h \in ProbeHeights }

(* The sequences without repetition of at most n elements of S *)
SeqsNoRepeat(S, n) ==
    UNION { {q \in [1..k -> S] : \A i, j \in 1..k : i # j => q[i] # q[j]} :
            k \in 1..n }

(* The table an export of `rows` with the columns of `schema` archives as  *)
Table(schema, rows) ==
    [cols |-> [k \in 1..Len(schema) |-> HeaderOf(schema[k])],
     rows |-> [i \in 1..Len(rows) |->
                 [k \in 1..Len(schema) |-> rows[i][schema[k]]]]]

(* A row with a coordinate that is text, or with no azimuth *)
Malformed(r) == IsStr(r.lat) \/ IsStr(r.lon) \/ IsNaN(r.azi)

Irregular(sc, rows) ==
    sc # FullSchema \/ \E i \in 1..Len(rows) : Malformed(rows[i])

DesignTables ==
    { Table(sc[1], sc[2]) :
        sc \in { x \in Schemas \X SeqsNoRepeat(CoreRows, MaxRows) :
                    Irregular(x[1], x[2]) => Len(x[2]) <= MaxIrregularRows } }
    \cup { Table(FullSchema, <<r>>) : r \in ProbeRows }

NoTable == [cols |-> <<>>, rows |-> <<>>]

CmRow(node, group, near, tilt) ==
    [NodeId |-> Str(node), AntennaUnitGroupId |-> Num(group),
     AntennaNearUnitId |-> Str(near), electricalAntennaTilt |-> Num(tilt)]

CmColumns ==
    {"NodeId", "AntennaUnitGroupId", "AntennaNearUnitId", "electricalAntennaTilt"}

(* A configuration table: tilts of 4.0 and 8.0 degrees, in tenths *)
CmTable ==
    [cols |-> CmColumns, file |-> TRUE,
     rows |-> << CmRow(t_A, 1, <<"L", "2", "1", "0", "0">>, 40),
                 CmRow(t_B, 1, <<"L", "2", "1", "0", "0">>, 80) >>]

(* Lines 54-58: the limit the prompt gives for the typed text.  The texts  *)
(* are "", "0", "2" and "-1": int() of all-digit text, else 1.             *)
PromptLimits == {1, 0, 2}

(* The state when get_latest_clean_file has returned (line 60).            *)
Init ==
    /\ pc = "loading"
    /\ is_web \in BOOLEAN
    /\ site_limit \in IF is_web THEN (0 - 1)..MaxLimit ELSE PromptLimits
    /\ file_path \in {None, "file"}
    /\ df \in IF file_path = None THEN {NoTable} ELSE DesignTables
    /\ cm \in {CmTable}
    /\ colmap = NoMap
    /\ distance_km = <<>>
    /\ sites = <<>>
    /\ cells = <<>>
    /\ top_distance = <<>>
    /\ top_offset = <<>>
    /\ verdict = NoVerdict
    /\ cli_verdict = ""
    /\ outcome = Running
    /\ fn = "analyze"
    /\ arg = <<>>
    /\ ret = <<>>

Next ==
    \/ CheckFile
    \/ MapColumns
    \/ ComputeDistances
    \/ SelectSites
    \/ ProcessCells
    \/ Rank
    \/ Verdict
    \/ Return

Spec == Init /\ [][Next]_vars

----------------------------------------------------------------------------
(* fetch_ericsson_e_tilt_group called on its own, on any identifiers and   *)
(* any configuration table.                                                *)

(* The engine is not running *)
EngineIdle ==
    /\ pc = "idle"
    /\ is_web = FALSE
    /\ site_limit = 1
    /\ file_path = None
    /\ df = NoTable
    /\ cm = NoCm
    /\ colmap = NoMap
    /\ distance_km = <<>>
    /\ sites = <<>>
    /\ cells = <<>>
    /\ top_distance = <<>>
    /\ top_offset = <<>>
    /\ verdict = NoVerdict
    /\ cli_verdict = ""
    /\ outcome = Running

(* A helper has been called and has not returned *)
Pending == [kind |-> "pending"]

(* The most rows of a configuration table. *)
MaxCmRows == 2

ResolverSites ==
    { Str(t_A), Str(t_B), Str(<<"A", ".", "1">>), Str(<<"(">>) }

(* Names ending in a letter of both maps, of the sector map only, of       *)
(* neither, in lower case; the empty name; a missing name (str(nan)).      *)
ResolverCells ==
    { Str(<<"A", "1", "X">>), Str(<<"A", "1", "Q">>), Str(<<"A", "1", "A">>),
      Str(<<"A", "1", "-">>), Str(<<"a", "1", "x">>), Str(<<>>), NaN }

CmFieldRow(node, group, near, tilt) ==
    [NodeId |-> node, AntennaUnitGroupId |-> group,
     AntennaNearUnitId |-> near, electricalAntennaTilt |-> tilt]

t_L2100 == <<"L", "2", "1", "0", "0">>

CmRows ==
    { CmFieldRow(Str(t_A), Num(1), Str(t_L2100), Num(40)),
      CmFieldRow(Str(<<"x", "A", "y">>), Num(1), Str(t_L2100 \o <<"_", "1">>), Num(45)),
      CmFieldRow(Str(<<"A", "X", "1">>), Num(1), Str(t_L2100), Num(50)),
      CmFieldRow(Str(t_A), Num(3), Str(<<"L", "8", "0", "0">>), Num(20)),
      CmFieldRow(Str(t_B), Num(1), Str(t_L2100), Num(80)),
      CmFieldRow(Str(t_A), Num(1), Str(t_L2100), Str(<<"n", "/", "a">>)),
      CmFieldRow(Str(t_A), Num(1), Str(t_L2100), NaN),
      CmFieldRow(Str(t_A), Str(<<"S", "1">>), Str(t_L2100), Num(40)),
      CmFieldRow(Str(t_A), Num(1), Num(2100), Num(40)) }

CmTables ==
    { [cols |-> cs, rows |-> rs, file |-> TRUE] :
        cs \in {CmColumns} \cup {CmColumns \ {c} : c \in CmColumns},
        rs \in {<<>>} \cup SeqsNoRepeat(CmRows, MaxCmRows) }
    \cup {NoCm}

InitResolver ==
    /\ EngineIdle
    /\ fn = "fetch_ericsson_e_tilt_group"
    /\ arg \in [site_id : ResolverSites, cell_name : ResolverCells, cmt : CmTables]
    /\ ret = Pending

CallResolver ==
    /\ fn = "fetch_ericsson_e_tilt_group"
    /\ ret = Pending
    /\ ret' = fetch_ericsson_e_tilt_group(arg.site_id, arg.cell_name, arg.cmt)
    /\ UNCHANGED <<engine, fn, arg>>

NextResolver == CallResolver

SpecResolver == InitResolver /\ [][NextResolver]_vars

----------------------------------------------------------------------------
(* Table lookup: rca_utils.get_latest_clean_file.                          *)

(* The latest timestamp of an archived file. *)
MaxStamp == 2
(* The most files of an archive folder. *)
MaxFiles == 2

t_database_ == <<"d", "a", "t", "a", "b", "a", "s", "e", "_">>
t_cm_       == <<"c", "m", "_">>

(* The names the ingestion gives to the files it archives: the file       *)
(* f"{kind}_{stamp}_{name}" with kind "clean" (and the suffix ".csv") or   *)
(* "raw" (main.py, lines 42 and 48).  The names are listed in the order of *)
(* Python's string comparison.                                             *)
ArchivedNames ==
    << t_cm_ \o <<"a">>, t_database_ \o <<"l", "t", "e">>, t_database_ \o <<"n", "r">> >>

NameRank(name) == CHOOSE i \in 1..Len(ArchivedNames) : ArchivedNames[i] = name

ArchivedFiles ==
    [kind : {"clean", "raw"}, stamp : 1..MaxStamp,
     name : {ArchivedNames[i] : i \in 1..Len(ArchivedNames)}]

(* An archive folder: absent, or present with some files *)
NoArchive == [exists |-> FALSE, files |-> {}]

Archives ==
    { [exists |-> TRUE, files |-> fs] :
        fs \in {x \in SUBSET ArchivedFiles : Cardinality(x) <= MaxFiles} }
    \cup {NoArchive}

(* path.glob(f"clean_*{pattern}*.csv") *)
GlobClean(files, pattern) ==
    {f \in files : f.kind = "clean" /\ Contains(f.name, pattern)}

(* f sorts after g as a path: the later stamp, then the greater name *)
PathAfter(f, g) ==
    \/ f.stamp > g.stamp
    \/ f.stamp = g.stamp /\ NameRank(f.name) >= NameRank(g.name)

NoFile == [kind |-> "none"]
LookupTypeError == [kind |-> "raise", exc |-> "TypeError"]

(* get_latest_clean_file called with the positional arguments args on the  *)
(* archive of the folder args[1].  The function has two parameters: any    *)
(* other number of arguments raises TypeError at the call.                 *)
get_latest_clean_file(args, archive) ==
    IF Len(args) # 2 THEN LookupTypeError
    ELSE IF ~archive.exists THEN NoFile
    ELSE LET files == GlobClean(archive.files, args[2])
         IN  IF files = {} THEN NoFile
             ELSE [kind |-> "file",
                   file |-> CHOOSE f \in files : \A g \in files : PathAfter(f, g)]

(* The calls the program makes: two arguments from the resolvers           *)
(* (rca_utils.py, lines 60 and 128), three from analyze (line 60).         *)
LookupCalls ==
    { <<"cm", t_cm_>>, <<"database", t_database_>>,
      <<"database", t_database_, None>>, <<"database", t_database_, "LTE">> }

InitLookup ==
    /\ EngineIdle
    /\ fn = "get_latest_clean_file"
    /\ arg \in [args : LookupCalls, archive : Archives]
    /\ ret = Pending

CallLookup ==
    /\ fn = "get_latest_clean_file"
    /\ ret = Pending
    /\ ret' = get_latest_clean_file(arg.args, arg.archive)
    /\ UNCHANGED <<engine, fn, arg>>

NextLookup == CallLookup

SpecLookup == InitLookup /\ [][NextLookup]_vars

----------------------------------------------------------------------------
(* analyze from its first line: the prompt (lines 54-58) and the call of   *)
(* the table lookup (line 60).                                             *)

Digits == <<"0", "1", "2", "3", "4", "5", "6", "7", "8", "9">>

(* A character str.isdigit() accepts and int() does not *)
SuperscriptTwo == "superscript two"

(* limit_input.isdigit() *)
IsDigitText(text) ==
    /\ Len(text) > 0
    /\ \A i \in 1..Len(text) :
          text[i] = SuperscriptTwo \/ \E d \in 1..10 : Digits[d] = text[i]

DigitValue(c) == (CHOOSE d \in 1..10 : Digits[d] = c) - 1

(* int(text) of decimal digits *)
RECURSIVE IntOf(_)
IntOf(text) ==
    IF text = <<>> THEN 0
    ELSE 10 * IntOf(SubSeq(text, 1, Len(text) - 1)) + DigitValue(text[Len(text)])

(* What the user types at the prompt, stripped *)
TypedTexts ==
    { <<>>, <<"0">>, <<"2">>, <<"-", "1">>, <<"0", "3">>, <<"x">>, <<SuperscriptTwo>> }

InitAnalyze ==
    /\ pc = "start"
    /\ is_web \in BOOLEAN
    /\ site_limit \in (0 - 1)..MaxLimit
    /\ file_path = None
    /\ df = NoTable
    /\ cm = NoCm
    /\ colmap = NoMap
    /\ distance_km = <<>>
    /\ sites = <<>>
    /\ cells = <<>>
    /\ top_distance = <<>>
    /\ top_offset = <<>>
    /\ verdict = NoVerdict
    /\ cli_verdict = ""
    /\ outcome = Running
    /\ fn = "analyze"
    /\ arg \in [typed : IF is_web THEN {<<>>} ELSE TypedTexts,
                tech : {None, "LTE"},
                archive : Archives]
    /\ ret = <<>>

(* Lines 44-58: in CLI mode the typed text replaces ctx's site_limit *)
Prompt ==
    /\ pc = "start"
    /\ IF is_web
       THEN /\ pc' = "lookup"
            /\ UNCHANGED <<site_limit, outcome>>
       ELSE IF ~IsDigitText(arg.typed)
       THEN /\ site_limit' = 1
            /\ pc' = "lookup"
            /\ UNCHANGED outcome
       ELSE IF \E i \in 1..Len(arg.typed) : arg.typed[i] = SuperscriptTwo
       THEN /\ pc' = "error"
            /\ outcome' = Raised("ValueError", 58)
            /\ UNCHANGED site_limit
       ELSE /\ site_limit' = IntOf(arg.typed)
            /\ pc' = "lookup"
            /\ UNCHANGED outcome
    /\ UNCHANGED <<fn, arg, ret, is_web, file_path, df, cm, colmap, distance_km,
                   sites, cells, top_distance, top_offset, verdict, cli_verdict>>

(* Line 60: file_path = get_latest_clean_file("database", "database_", tech) *)
Lookup ==
    /\ pc = "lookup"
    /\ LET r == get_latest_clean_file(<<"database", t_database_, arg.tech>>, arg.archive)
       IN  IF r.kind = "raise"
           THEN /\ pc' = "error"
                /\ outcome' = Raised(r.exc, 60)
                /\ UNCHANGED file_path
           ELSE /\ pc' = "loading"
                /\ file_path' = IF r.kind = "none" THEN None ELSE "file"
                /\ UNCHANGED outcome
    /\ UNCHANGED <<fn, arg, ret, is_web, site_limit, df, cm, colmap, distance_km,
                   sites, cells, top_distance, top_offset, verdict, cli_verdict>>

(* The call of line 60 raises, so no later statement of analyze runs.      *)
NextAnalyze ==
    \/ Prompt
    \/ Lookup

SpecAnalyze == InitAnalyze /\ [][NextAnalyze]_vars

----------------------------------------------------------------------------
(* Format sniffer: CsvReader._find_start_params (csv_reader.py).           *)

(* Line 13 with utf-8 ahead of utf-16 *)
EncodingsUtf8First == <<"utf-8", "utf-16", "latin-1">>

(* Line 13: the encodings, in the order they are tried *)
Encodings == <<"utf-16", "utf-8", "latin-1">>

Tab == "\t"

(* A letter outside 7-bit ASCII *)
NonAscii == "non-ascii letter"

(* The code points of the ASCII characters of the lines below *)
CharCode(c) ==
    CASE c = Tab -> 9
      [] c = " " -> 32
      [] c = "," -> 44
      [] c = ":" -> 58
      [] c = ";" -> 59
      [] c = "K" -> 75
      [] c = "x" -> 120

(* csv.Sniffer.preferred *)
Preferred == <<",", Tab, ";", " ", ":">>

Count(line, c) == Cardinality({i \in 1..Len(line) : line[i] = c})

SniffError == "csv.Error"

(* csv.Sniffer().sniff(line) on one line without quotes: every ASCII       *)
(* character of the line is a candidate; one candidate is the delimiter,   *)
(* of several the first of the preferred list, else the most frequent      *)
(* (the greatest in code among equals); with no candidate sniff raises     *)
(* csv.Error("Could not determine delimiter").                             *)
Sniff(line) ==
    LET cand == {line[i] : i \in 1..Len(line)} \ {NonAscii}
        pref == {j \in 1..Len(Preferred) : Preferred[j] \in cand}
    IN  IF cand = {} THEN SniffError
        ELSE IF pref # {} THEN Preferred[SetMin(pref)]
        ELSE CHOOSE c \in cand : \A d \in cand :
                 \/ Count(line, c) > Count(line, d)
                 \/ Count(line, c) = Count(line, d) /\ CharCode(c) >= CharCode(d)

(* Lines 25-29: the delimiter of the header line *)
DelimiterOf(line) == IF Sniff(line) = SniffError THEN ";" ELSE Sniff(line)

(* any(k in line for k in keywords) *)
HasKeyword(line, keywords) == \E k \in 1..Len(keywords) : Contains(line, keywords[k])

(* A file as one encoding decodes it: its lines, whether decoding raises   *)
(* UnicodeDecodeError, and how many lines the loop of line 23 gets before  *)
(* it does (0: the read of line 17 raises).                                *)
View(lines, fails, ok_lines) == [lines |-> lines, fails |-> fails, ok_lines |-> ok_lines]

(* The lines the loop of line 23 gets *)
Scanned(view) == IF view.fails THEN SubSeq(view.lines, 1, view.ok_lines) ELSE view.lines

(* Lines 14-31 for one encoding: the triple returned, or "next" when the   *)
(* attempt ends with nothing returned (decode error, empty file, no line   *)
(* with a keyword).                                                        *)
TryNext == [kind |-> "next"]

TryEncoding(view, keywords, enc) ==
    LET lines == Scanned(view)
        hits  == {i \in 1..Len(lines) : HasKeyword(lines[i], keywords)}
    IN  IF view.fails /\ view.ok_lines = 0 THEN TryNext
        ELSE IF view.lines = <<>> THEN TryNext
        ELSE IF hits = {} THEN TryNext
        ELSE [kind |-> "result", i |-> SetMin(hits) - 1,
              delimiter |-> DelimiterOf(lines[SetMin(hits)]), enc |-> enc]

(* Line 33 with a comma *)
SniffDefaultComma == [kind |-> "result", i |-> 0, delimiter |-> ",", enc |-> "utf-8"]

(* Line 33 *)
SniffDefault == [kind |-> "result", i |-> 0, delimiter |-> ";", enc |-> "utf-8"]

(* The most lines ahead of the header line. *)
MaxPre == 3

Filler == <<"x", ";", "x">>

(* pre lines without a keyword, then the header line if there is one *)
LinesOf(pre, header) == [i \in 1..pre |-> Filler] \o header

(* Header lines: tab-delimited, semicolon-delimited *)
PlainHeaders == { <<"K", Tab, "x">>, <<"K", ";", "x">> }

(* Header lines of every make: one column, tab with a comma or a          *)
(* semicolon in a name, space, colon, letters only, no ASCII character     *)
SniffedHeaders ==
    PlainHeaders \cup
    { <<"K">>, <<"K", Tab, "x", ",", "x">>, <<"K", Tab, "x", ";">>, <<"K", ",", "x", ";">>,
      <<"K", " ", "x">>, <<"K", ":", "x">>, <<"K", "x", "x">>, <<"x", "K">>,
      <<NonAscii>>, <<NonAscii, ";">>, <<NonAscii, NonAscii>> }

(* The views of a file: whole, undecodable from the start, undecodable     *)
(* from the header line on, undecodable after the header line.             *)
ViewsOf(headers) ==
    { View(LinesOf(pre, h), FALSE, 0) : pre \in 0..MaxPre, h \in {<<>>} \cup {<<x>> : x \in headers} }
    \cup { View(LinesOf(pre, <<h>>), TRUE, 0) : pre \in 0..MaxPre, h \in headers }
    \cup { View(LinesOf(pre, <<h>>), TRUE, pre) : pre \in 0..MaxPre, h \in headers }
    \cup { View(LinesOf(pre, <<h>>), TRUE, pre + 1) : pre \in 0..MaxPre, h \in headers }

Decodable(views) == {v \in views : ~v.fails}

SnifferKeywords == << <<"K">>, <<NonAscii>> >>

(* Files by their three decodings; latin-1 decodes every byte.  The        *)
(* second set is of files that utf-16 cannot decode.                       *)
SnifferFiles ==
    [utf16 : ViewsOf(PlainHeaders), utf8 : ViewsOf(PlainHeaders),
     latin1 : Decodable(ViewsOf(PlainHeaders))]
    \cup
    [utf16 : {View(<<Filler>>, TRUE, 0)}, utf8 : ViewsOf(SniffedHeaders),
     latin1 : Decodable(ViewsOf(SniffedHeaders))]

ViewUnder(file, enc) ==
    CASE enc = "utf-16" -> file.utf16
      [] enc = "utf-8" -> file.utf8
      [] enc = "latin-1" -> file.latin1

InitSniffer ==
    /\ EngineIdle
    /\ fn = "_find_start_params"
    /\ arg \in [file : SnifferFiles, keywords : {SnifferKeywords}]
    /\ ret = [kind |-> "scanning", k |-> 1]

(* One turn of the loop of line 13 *)
TryOne ==
    /\ fn = "_find_start_params"
    /\ ret.kind = "scanning"
    /\ ret.k <= Len(Encodings)
    /\ LET enc == Encodings[ret.k]
           r   == TryEncoding(ViewUnder(arg.file, enc), arg.keywords, enc)
       IN  ret' = IF r.kind = "result" THEN r ELSE [kind |-> "scanning", k |-> ret.k + 1]
    /\ UNCHANGED <<engine, fn, arg>>

(* Line 33: the loop is over *)
ReturnDefault ==
    /\ fn = "_find_start_params"
    /\ ret.kind = "scanning"
    /\ ret.k > Len(Encodings)
    /\ ret' = SniffDefault
    /\ UNCHANGED <<engine, fn, arg>>

NextSniffer ==
    \/ TryOne
    \/ ReturnDefault

SpecSniffer == InitSniffer /\ [][NextSniffer]_vars

----------------------------------------------------------------------------
(* find_standard_col called on its own, on headers as the files have them. *)

(* The most columns of a header list. *)
MaxCols == 3

t_Site_ID     == <<"S", "i", "t", "e", "_", "I", "D">>
t_Lat_deg     == <<"L", "a", "t", " ", "(", "d", "e", "g", ")">>
t_Lon_deg     == <<"L", "o", "n", " ", "(", "d", "e", "g", ")">>
t_Azimuth_deg == <<"A", "z", "i", "m", "u", "t", "h", "_", "d", "e", "g">>

(* The header list of the spec's example *)
ExampleHeaders == <<t_Site_ID, t_Lat_deg, t_Lon_deg, t_Azimuth_deg>>

MapperHeaders ==
    { t_Site_ID, t_Lat_deg, t_Lon_deg,
      <<"N", "O", "R", "T", "H">>,
      <<"l", "a", "t", "i", "t", "u", "d", "e">>,
      <<"E", "a", "s", "t">>,
      <<"B", "a", "n", "d">> }

MapperRoles == {"lat", "lon", "azi", "site", "rsrp"}

InitMapper ==
    /\ EngineIdle
    /\ fn = "find_standard_col"
    /\ arg \in [df_columns : {ExampleHeaders} \cup SeqsNoRepeat(MapperHeaders, MaxCols),
                target_type : MapperRoles,
                default : {NoCol, t_Site_ID}]
    /\ ret = Pending

CallMapper ==
    /\ fn = "find_standard_col"
    /\ ret = Pending
    /\ ret' = [kind |-> "result",
               col |-> find_standard_col(arg.df_columns, arg.target_type, arg.default)]
    /\ UNCHANGED <<engine, fn, arg>>

NextMapper == CallMapper

SpecMapper == InitMapper /\ [][NextMapper]_vars

----------------------------------------------------------------------------
(* calculate_angle_offset called on its own.                               *)

(* Azimuths are taken every 45 degrees from 0.7 degrees, this many times.  *)
MaxAzimuthSteps == 8

(* Azimuths in tenths of a degree, some outside [0, 360), and the two      *)
(* undefined ones: None and NaN.                                           *)
OffsetAzimuths ==
    {Num(450 * k + 7) : k \in 0..MaxAzimuthSteps}
        \cup {Num(0), Num(1800), Num(3600), Num(0 - 900), NaN, NoAzimuth}

(* Bearings in 1/10000 degree: values between the tenths of a degree, and  *)
(* for each azimuth the azimuth itself and its opposite direction.         *)
OffsetBearings(azimuth) ==
    {0, 400, 899600, 1234567, 1800000, 2700499, 3599999}
        \cup (IF IsNum(azimuth)
              THEN {azimuth.v * 1000, (azimuth.v * 1000 + 1800000) % 3600000}
              ELSE {})

InitOffset ==
    /\ EngineIdle
    /\ fn = "calculate_angle_offset"
    /\ arg \in {[azimuth |-> a, bearing |-> b] :
                    a \in OffsetAzimuths,
                    b \in UNION {OffsetBearings(x) : x \in OffsetAzimuths}}
    /\ ret = Pending

CallOffset ==
    /\ fn = "calculate_angle_offset"
    /\ ret = Pending
    /\ ret' = [kind |-> "result",
               offset |-> calculate_angle_offset(arg.azimuth, arg.bearing)]
    /\ UNCHANGED <<engine, fn, arg>>

NextOffset == CallOffset

SpecOffset == InitOffset /\ [][NextOffset]_vars

----------------------------------------------------------------------------
(* calculate_required_tilt called twice on one height.                     *)

(* Heights in decimetres and positive distances in millimetres for which   *)
(* ArctanTable holds the result, and the distances 0 and -1 m.             *)
TiltHeights == {e[1] : e \in ArctanTable}

TiltDistances == {e[2] : e \in ArctanTable} \cup {0, 0 - 1000}

InitTilt ==
    /\ EngineIdle
    /\ fn = "calculate_required_tilt"
    /\ arg \in [height_m : TiltHeights, d1 : TiltDistances, d2 : TiltDistances]
    /\ ret = Pending

CallTilt ==
    /\ fn = "calculate_required_tilt"
    /\ ret = Pending
    /\ ret' = [kind |-> "result",
               t1 |-> calculate_required_tilt(arg.height_m, arg.d1),
               t2 |-> calculate_required_tilt(arg.height_m, arg.d2)]
    /\ UNCHANGED <<engine, fn, arg>>

NextTilt == CallTilt

SpecTilt == InitTilt /\ [][NextTilt]_vars

----------------------------------------------------------------------------
(* Several calls of analyze on an unchanged archive: a request alone, the  *)
(* same request again, a second request alone, and the two requests as     *)
(* two threads that are switched between any two steps.  The engine        *)
(* variables are the locals of the call that is running; `ret.parked`      *)
(* holds the locals of the thread that is not.                             *)

(* sort_values at line 100 is quicksort: the order of equal distances is   *)
(* not specified, but it is a function of the column.  `ascending` tells   *)
(* whether equal distances keep the table order or reverse it.             *)
TieOrder(dist, ascending) ==
    CHOOSE p \in SortOrders(dist) :
        \A i, j \in 1..Len(dist) :
            (i < j /\ dist[p[i]] = dist[p[j]]) =>
                IF ascending THEN p[i] < p[j] ELSE p[i] > p[j]

(* An order of equal distances that changes from one call to the next *)
BuildOrderByCall(dist, build) ==
    TieOrder(dist, (build = "stable") = (ret.phase # "again"))

(* The order the installed sort gives the rows *)
BuildOrder(dist, build) == TieOrder(dist, build = "stable")

RowA1 == DesignRow(t_A, <<"A", "1", "X">>, Num(1), Num(0), Num(1800), Num(300))
RowB1 == DesignRow(t_B, <<"B", "1", "X">>, Num(0 - 1), Num(0), Num(400), Num(300))
RowB2 == DesignRow(t_B, <<"B", "2", "Z">>, Num(2), Num(0), Num(1800), Num(530))
RowC1 == DesignRow(t_C, <<"C", "1", "Q">>, Num(0), Num(1), Num(900), Num(450))
RowA3 == DesignRow(t_A, <<"A", "3", "Z">>, Num(2), Num(0), NaN, Num(300))

Request(web, limit, path, table) ==
    [is_web |-> web, site_limit |-> limit, file_path |-> path, df |-> table]

(* Requests on tables with two sites at one distance, with a row that has  *)
(* no azimuth, with no latitude column, and with no table in the archive.  *)
Requests ==
    { Request(TRUE, 2, "file", Table(FullSchema, <<RowA1, RowB1, RowC1>>)),
      Request(FALSE, 1, "file", Table(FullSchema, <<RowA1, RowB1, RowC1>>)),
      Request(TRUE, 1, "file", Table(FullSchema, <<RowB2, RowB1>>)),
      Request(FALSE, 2, "file", Table(FullSchema, <<RowC1, RowA3>>)),
      Request(TRUE, 1, "file",
              Table(<<"site", "cell", "lon", "azi", "hba">>, <<RowA1>>)),
      Request(TRUE, 1, None, NoTable) }

(* The locals of the running call *)
Locals ==
    [pc |-> pc, is_web |-> is_web, site_limit |-> site_limit,
     file_path |-> file_path, df |-> df, cm |-> cm, colmap |-> colmap,
     distance_km |-> distance_km, sites |-> sites, cells |-> cells,
     top_distance |-> top_distance, top_offset |-> top_offset,
     verdict |-> verdict, cli_verdict |-> cli_verdict, outcome |-> outcome]

(* The locals of a call of analyze(ctx) when the lookup has returned *)
Fresh(req) ==
    [pc |-> "loading", is_web |-> req.is_web, site_limit |-> req.site_limit,
     file_path |-> req.file_path, df |-> req.df, cm |-> CmTable, colmap |-> NoMap,
     distance_km |-> <<>>, sites |-> <<>>, cells |-> <<>>,
     top_distance |-> <<>>, top_offset |-> <<>>,
     verdict |-> NoVerdict, cli_verdict |-> "", outcome |-> Running]

(* The thread with the locals l runs next *)
Resume(l) ==
    /\ pc' = l.pc
    /\ is_web' = l.is_web
    /\ site_limit' = l.site_limit
    /\ file_path' = l.file_path
    /\ df' = l.df
    /\ cm' = l.cm
    /\ colmap' = l.colmap
    /\ distance_km' = l.distance_km
    /\ sites' = l.sites
    /\ cells' = l.cells
    /\ top_distance' = l.top_distance
    /\ top_offset' = l.top_offset
    /\ verdict' = l.verdict
    /\ cli_verdict' = l.cli_verdict
    /\ outcome' = l.outcome

(* The running call has the locals l *)
Holds(l) ==
    /\ pc = l.pc
    /\ is_web = l.is_web
    /\ site_limit = l.site_limit
    /\ file_path = l.file_path
    /\ df = l.df
    /\ cm = l.cm
    /\ colmap = l.colmap
    /\ distance_km = l.distance_km
    /\ sites = l.sites
    /\ cells = l.cells
    /\ top_distance = l.top_distance
    /\ top_offset = l.top_offset
    /\ verdict = l.verdict
    /\ cli_verdict = l.cli_verdict
    /\ outcome = l.outcome

Ended(l) == l.pc \in {"done", "error"}

(* What a call gives its caller: the AnalysisResult of line 245, or None,  *)
(* or the exception.                                                       *)
ResultOf(l) ==
    IF l.outcome.kind = "result"
    THEN [outcome |-> l.outcome, cells |-> l.cells, top_distance |-> l.top_distance,
          top_offset |-> l.top_offset, verdict |-> l.verdict]
    ELSE [outcome |-> l.outcome, cells |-> <<>>, top_distance |-> <<>>,
          top_offset |-> <<>>, verdict |-> NoVerdict]

InitRequests ==
    /\ fn = "requests"
    /\ arg \in [build : {"stable", "reversed"}, reqs : Requests \X Requests]
    /\ ret = [phase |-> "alone", me |-> 1, alone |-> <<Pending, Pending>>,
              parked |-> Pending, mixed |-> FALSE]
    /\ Holds(Fresh(arg.reqs[1]))

(* Line 100 under the installed sort *)
SelectSitesOn ==
    /\ pc = "selecting"
    /\ sites' = NearestSites(BuildOrder(distance_km, arg.build))
    /\ pc' = "classifying"
    /\ UNCHANGED <<fn, arg, ret, is_web, site_limit, file_path, df, cm, colmap, distance_km,
                   cells, top_distance, top_offset, verdict, cli_verdict, outcome>>

(* The first request is sent again *)
CallAgain ==
    /\ fn = "requests" /\ ret.phase = "alone" /\ ret.me = 1
    /\ Ended(Locals)
    /\ ret' = [ret EXCEPT !.phase = "again", !.alone[1] = ResultOf(Locals)]
    /\ Resume(Fresh(arg.reqs[1]))
    /\ UNCHANGED <<fn, arg>>

(* The second request is sent *)
CallSecond ==
    /\ fn = "requests" /\ ret.phase = "again"
    /\ Ended(Locals)
    /\ ret' = [ret EXCEPT !.phase = "alone", !.me = 2]
    /\ Resume(Fresh(arg.reqs[2]))
    /\ UNCHANGED <<fn, arg>>

(* Both requests are sent at once, each to a thread of its own *)
CallBoth ==
    /\ fn = "requests" /\ ret.phase = "alone" /\ ret.me = 2
    /\ Ended(Locals)
    /\ ret' = [ret EXCEPT !.phase = "pair", !.me = 1, !.alone[2] = ResultOf(Locals),
                          !.parked = Fresh(arg.reqs[2])]
    /\ Resume(Fresh(arg.reqs[1]))
    /\ UNCHANGED <<fn, arg>>

(* The switch with the cell list of line 94 kept in one place for all      *)
(* threads                                                                 *)
SwitchSharingCells ==
    /\ fn = "requests" /\ ret.phase = "pair"
    /\ ~Ended(ret.parked)
    /\ ret' = [ret EXCEPT !.me = 3 - ret.me, !.parked = Locals,
                          !.mixed = ret.mixed \/ (pc \notin {"loading", "done", "error"}
                                                  /\ ret.parked.pc # "loading")]
    /\ \E l \in {[ret.parked EXCEPT !.cells = cells]} : Resume(l)
    /\ UNCHANGED <<fn, arg>>

(* The scheduler runs the other thread.  Everything analyze assigns is a   *)
(* local of the call (lines 44-49, 60-100), so all of it goes with the     *)
(* thread.                                                                 *)
Switch ==
    /\ fn = "requests" /\ ret.phase = "pair"
    /\ ~Ended(ret.parked)
    /\ ret' = [ret EXCEPT !.me = 3 - ret.me, !.parked = Locals,
                          !.mixed = ret.mixed \/ (pc \notin {"loading", "done", "error"}
                                                  /\ ret.parked.pc # "loading")]
    /\ Resume(ret.parked)
    /\ UNCHANGED <<fn, arg>>

NextRequests ==
    \/ CheckFile
    \/ MapColumns
    \/ ComputeDistances
    \/ SelectSitesOn
    \/ ProcessCells
    \/ Rank
    \/ Verdict
    \/ Return
    \/ CallAgain
    \/ CallSecond
    \/ CallBoth
    \/ Switch

SpecRequests == InitRequests /\ [][NextRequests]_vars

----------------------------------------------------------------------------
(* The main menu of main.py and its history list.  A context is named by   *)
(* a number: 0 is the context with every value None, a negative number a   *)
(* context read from the history file, a positive number a context typed   *)
(* in.  A history entry also carries the time it was put on the list.      *)

(* The most contexts the user types in. *)
MaxEdits == 3

(* history[:10] at line 158 *)
HistoryCap == 10

EmptyCtx == 0

(* The lengths of the list in data/rca_history.json when the program       *)
(* starts: no file or an empty list, a list the program wrote, a list with *)
(* one entry more.                                                         *)
FileLengths == {0, 1, HistoryCap - 1, HistoryCap, HistoryCap + 1}

(* load_history, lines 43-51 of rca_utils.py: the list as the file has it, *)
(* most recent first.                                                      *)
load_history(n) == [k \in 1..n |-> [ctx |-> 0 - k, at |-> 0 - k]]

NotSaved == <<[ctx |-> 0, at |-> 0]>>

(* any(v is not None for v in current_ctx.values()) *)
AnyValue(ctx) == ctx # EmptyCtx

InitMenu ==
    /\ EngineIdle
    /\ fn = "main"
    /\ arg \in FileLengths
    /\ ret = [pc |-> "menu", history |-> load_history(arg), current_ctx |-> EmptyCtx,
              saved |-> NotSaved, clock |-> 1]

(* Choice 1, lines 139-153: the history is not touched *)
ProcessAndClean ==
    /\ fn = "main" /\ ret.pc = "menu"
    /\ ret' = ret
    /\ UNCHANGED <<engine, fn, arg>>

(* Choice 2, lines 155-160: the context on screen goes to the head of the  *)
(* list, the list is cut to 10 and saved; then the context is edited: all  *)
(* values kept, all cleared, or a new context.                             *)
EditContext ==
    /\ fn = "main" /\ ret.pc = "menu"
    /\ ret.clock <= MaxEdits
    /\ \E new \in {ret.current_ctx, EmptyCtx, ret.clock} :
          LET pushed == Slice(<<[ctx |-> ret.current_ctx, at |-> ret.clock]>>
                                  \o ret.history, HistoryCap)
          IN  ret' = IF AnyValue(ret.current_ctx)
                     THEN [ret EXCEPT !.history = pushed, !.saved = pushed,
                                      !.current_ctx = new, !.clock = ret.clock + 1]
                     ELSE [ret EXCEPT !.current_ctx = new, !.clock = ret.clock + 1]
    /\ UNCHANGED <<engine, fn, arg>>

(* Choice 3, show_history_menu, lines 91-112: an entry's number loads a    *)
(* copy of it, anything else keeps the context.                            *)
LoadFromHistory ==
    /\ fn = "main" /\ ret.pc = "menu"
    /\ \E choice \in 0..(Len(ret.history) + 1) :
          ret' = IF choice \in 1..Len(ret.history)
                 THEN [ret EXCEPT !.current_ctx = ret.history[choice].ctx]
                 ELSE ret
    /\ UNCHANGED <<engine, fn, arg>>

(* Choice 4, lines 165-169: the analyses read the context *)
RunRca ==
    /\ fn = "main" /\ ret.pc = "menu"
    /\ ret' = ret
    /\ UNCHANGED <<engine, fn, arg>>

(* Choice 5, lines 171-173 *)
Exit ==
    /\ fn = "main" /\ ret.pc = "menu"
    /\ ret' = [ret EXCEPT !.saved = ret.history, !.pc = "exited"]
    /\ UNCHANGED <<engine, fn, arg>>

NextMenu ==
    \/ ProcessAndClean
    \/ EditContext
    \/ LoadFromHistory
    \/ RunRca
    \/ Exit

SpecMenu == InitMenu /\ [][NextMenu]_vars

----------------------------------------------------------------------------
(* One pass of the menu loop of run_fwa_analysis, with the dispatch to     *)
(* execute_selected_rca.                                                   *)

(* Python None as a value of the context *)
PyNone == [t |-> "none", v |-> 0, s |-> <<>>]

(* bool(x): None and 0.0 are false *)
Truthy(x) == IsStr(x) \/ (IsNum(x) /\ x.v # 0)

CtxValues == {PyNone, Num(0), Num(1)}

Contexts ==
    [latitude : CtxValues, longitude : CtxValues, pci_lte : CtxValues, pci_nr : CtxValues]

(* Lines 60-70 of main.py: the codes offered, in the order shown *)
available_rcas(context) ==
    (IF Truthy(context.latitude) /\ Truthy(context.longitude)
     THEN <<"GEO_DIST">> ELSE <<>>)
    \o (IF context.pci_lte # PyNone THEN <<"LTE_COV">> ELSE <<>>)
    \o (IF context.pci_nr # PyNone THEN <<"NR_COV">> ELSE <<>>)
    \o (IF context.pci_lte # PyNone /\ context.pci_nr # PyNone
        THEN <<"ENDC_FAIL">> ELSE <<>>)
    \o <<"GEN_INT">>

(* The keys of `router`, lines 10-15 of rca_engine.py *)
Router == {"NR_COV", "LTE_COV", "ENDC_FAIL", "GEO_DIST"}

(* What an analyst gives back: None, a result with cells, an exception *)
AnalystOutcomes ==
    { [kind |-> "none", exc |-> ""],
      [kind |-> "dict", exc |-> ""],
      [kind |-> "raise", exc |-> "TypeError"] }

(* rca_engine.py, lines 3-28.  `results` is bound only at line 19; line 24 *)
(* reads it on both paths.                                                 *)
execute_selected_rca(rca_code, analyst) ==
    IF rca_code \in Router
    THEN IF analyst.kind = "raise"
         THEN [kind |-> "raise", exc |-> analyst.exc, printed |-> {}]
         ELSE [kind |-> "return", exc |-> "",
               printed |-> IF analyst.kind = "dict" THEN {"table"} ELSE {}]
    ELSE [kind |-> "raise", exc |-> "UnboundLocalError", printed |-> {"no analyst"}]

(* str(n) of a one-digit number *)
StrOf(n) == <<Digits[n + 1]>>

(* What the user types at line 79, stripped *)
MenuChoices ==
    { <<"0">>, <<"1">>, <<"2">>, <<"3">>, <<"4">>, <<"5">>, <<"6">>, <<"7">>,
      <<"b">>, <<"B">>, <<"x">>, <<>>, <<"-", "1">>, <<SuperscriptTwo>> }

NotCalled == [kind |-> "none", exc |-> "", printed |-> {}]

(* Lines 76-89: the pass for the typed choice.  A list index of -1 is the  *)
(* last entry of the list.                                                 *)
run_fwa_pass(context, choice, analyst) ==
    LET offered  == available_rcas(context)
        back_opt == Len(offered) + 1
    IN  IF choice = StrOf(back_opt) \/ Lower(choice) = <<"b">>
        THEN [pc |-> "back", offered |-> offered, code |-> "", out |-> NotCalled]
        ELSE IF ~IsDigitText(choice)
        THEN [pc |-> "invalid", offered |-> offered, code |-> "", out |-> NotCalled]
        ELSE IF \E i \in 1..Len(choice) : choice[i] = SuperscriptTwo
        THEN [pc |-> "raised", offered |-> offered, code |-> "",
              out |-> [kind |-> "raise", exc |-> "ValueError", printed |-> {}]]
        ELSE IF IntOf(choice) > Len(offered)
        THEN [pc |-> "invalid", offered |-> offered, code |-> "", out |-> NotCalled]
        ELSE LET index == IF IntOf(choice) = 0 THEN Len(offered) ELSE IntOf(choice)
                 code  == offered[index]
                 out   == execute_selected_rca(code, analyst)
             IN  [pc |-> IF out.kind = "raise" THEN "raised" ELSE "dispatched",
                  offered |-> offered, code |-> code, out |-> out]

InitRca ==
    /\ EngineIdle
    /\ fn = "run_fwa_analysis"
    /\ arg \in [context : Contexts, choice : MenuChoices, analyst : AnalystOutcomes]
    /\ ret = Pending

Select ==
    /\ fn = "run_fwa_analysis"
    /\ ret = Pending
    /\ ret' = run_fwa_pass(arg.context, arg.choice, arg.analyst)
    /\ UNCHANGED <<engine, fn, arg>>

NextRca == Select

SpecRca == InitRca /\ [][NextRca]_vars

----------------------------------------------------------------------------
(* process_files of main.py on one input folder.  `ret` holds the folder,  *)
(* its archive, the files still to process and a log of what was written.  *)

(* The most files in the input folder. *)
MaxFolderFiles == 2

StartsWith(text, head) ==
    Len(text) >= Len(head) /\ SubSeq(text, 1, Len(head)) = head

EndsWith(text, tail) ==
    Len(text) >= Len(tail) /\ SubSeq(text, Len(text) - Len(tail) + 1, Len(text)) = tail

(* Line 15 *)
extensions == << <<".", "c", "s", "v">>, <<".", "x", "l", "s", "x">>, <<".", "x", "l", "s">> >>

(* folder_path.glob(f"{prefix}{ext}") with ext = '*' + tail *)
GlobMatch(names, prefix, tail) ==
    {n \in names : Len(n) >= Len(prefix) + Len(tail)
                   /\ StartsWith(n, prefix) /\ EndsWith(n, tail)}

FileNames ==
    { <<"p", "m", "_", "a", ".", "c", "s", "v">>, <<"p", "m", "_", "b", ".", "x", "l", "s", "x">>, <<"p", "m", "_", "c", ".", "x", "l", "s">>,
      <<"c", "m", "_", "a", ".", "c", "s", "v">>, <<"p", "m", "_", "d", ".", "t", "x", "t">>,
      <<"p", "m", "_", "f", ".", "c", "s", "v">>, <<"x", "p", "m", "_", "e", ".", "c", "s", "v">> }

(* What reading the file gives: a table with rows, a table without, or an  *)
(* error inside pd.read_csv.                                               *)
FileContents == {"table", "empty", "error"}

(* The folders: files with different names *)
Folders ==
    {F \in SUBSET (FileNames \X FileContents) :
        /\ Cardinality(F) <= MaxFolderFiles
        /\ \A f, g \in F : f[1] = g[1] => f = g}

(* The tasks of lines 142-147, by prefix: read_pm_data returns None on an  *)
(* error (csv_reader.py:56-58), read_cm_data lets it through (lines 85-97) *)
Tasks == { [prefix |-> <<"p", "m", "_">>, reader |-> "pm"], [prefix |-> <<"c", "m", "_">>, reader |-> "cm"] }

read_func(reader, content) ==
    IF content = "error" THEN (IF reader = "pm" THEN "none" ELSE "raise")
    ELSE content

(* Line 31 with the test of df.empty left out *)
SkipsNoneOnly(table) == table = "none"

(* Line 31: df is None or df.empty *)
Skips(table) == table \in {"none", "empty"}

ArchiveEntry(kind, stamp, name) == [kind |-> kind, stamp |-> stamp, name |-> name]

(* An archive left by an earlier run *)
EarlierArchives ==
    { {}, {ArchiveEntry("clean", 0, <<"p", "m", "_", "a", ".", "c", "s", "v">> \o <<".", "c", "s", "v">>), ArchiveEntry("raw", 0, <<"p", "m", "_", "a", ".", "c", "s", "v">>)} }

InitFiles ==
    /\ EngineIdle
    /\ fn = "process_files"
    /\ arg \in [task : Tasks, folder : Folders, archive : EarlierArchives, now : {0, 1}]
    /\ ret = [pc |-> "glob", folder |-> {f[1] : f \in arg.folder}, archive |-> arg.archive,
              todo |-> <<>>, now |-> arg.now, read |-> {}, log |-> <<>>]

(* The orders in which glob may list the set S *)
Listings(S) ==
    {q \in [1..Cardinality(S) -> S] : \A i, j \in 1..Cardinality(S) : i # j => q[i] # q[j]}

(* Lines 15-23: one glob per extension, each in the order of the directory *)
Glob ==
    /\ fn = "process_files" /\ ret.pc = "glob"
    /\ \E a \in Listings(GlobMatch(ret.folder, arg.task.prefix, extensions[1])),
          b \in Listings(GlobMatch(ret.folder, arg.task.prefix, extensions[2])),
          c \in Listings(GlobMatch(ret.folder, arg.task.prefix, extensions[3])) :
          ret' = [ret EXCEPT !.todo = a \o b \o c,
                             !.pc = IF a \o b \o c = <<>> THEN "done" ELSE "loop"]
    /\ UNCHANGED <<engine, fn, arg>>

(* Lines 25-51 for the next file; the clock may have moved on a second *)
ProcessOne ==
    /\ fn = "process_files" /\ ret.pc = "loop"
    /\ \E stamp \in {ret.now, ret.now + 1} :
          LET name == Head(ret.todo)
              table == read_func(arg.task.reader,
                                (CHOOSE f \in arg.folder : f[1] = name)[2])
              rest == Tail(ret.todo)
              next == IF rest = <<>> THEN "done" ELSE "loop"
              seen == [ret EXCEPT !.todo = rest, !.read = ret.read \cup {name}]
          IN  ret' =
                IF table = "raise" THEN [seen EXCEPT !.pc = "raised"]
                ELSE IF Skips(table) THEN [seen EXCEPT !.pc = next]
                ELSE [seen EXCEPT
                        !.pc = next,
                        !.now = stamp,
                        !.folder = ret.folder \ {name},
                        !.archive = ret.archive \cup
                            { ArchiveEntry("clean", stamp, name \o <<".", "c", "s", "v">>),
                              ArchiveEntry("raw", stamp, name) },
                        !.log = ret.log \o
                            << ArchiveEntry("clean", stamp, name \o <<".", "c", "s", "v">>),
                               ArchiveEntry("raw", stamp, name) >>]
    /\ UNCHANGED <<engine, fn, arg>>

NextFiles == Glob \/ ProcessOne

SpecFiles == InitFiles /\ [][NextFiles]_vars

----------------------------------------------------------------------------
(* Properties of analyze.                                                  *)

(* The column list has a header that the mapper's keywords of `role` match *)
HasHeaderFor(t, role) ==
    \E i \in 1..Len(t.cols) :
        \E col \in {Lower(Strip(t.cols[i]))} :
            \E k \in 1..Len(mapping(role)) : Contains(col, Lower(mapping(role)[k]))

(* The set of the elements of a sequence *)
Range(seq) == {seq[k] : k \in 1..Len(seq)}

(* C1: whenever analyze gives a verdict, the verdict follows the best      *)
(* cell's offset and vertical status with this precedence: offset <= 30    *)
(* and V-OK is the sweet spot; offset > 30 is the horizontal mismatch      *)
(* whatever the vertical status; offset <= 30 and not V-OK is the vertical *)
(* mismatch.  The verdict is one of the three, it names the best cell's    *)
(* site and cell, and the verdict step fails on a best cell only when that *)
(* cell's offset is undefined.                                             *)
C1_VerdictPrecedence ==
    /\ pc \in {"returning", "done"} =>
          LET b == BestCell(cells)
          IN  /\ verdict.kind \in {"Sweet Spot", "Horizontal Mismatch", "Vertical Mismatch"}
              /\ (b.offset <= 300 /\ b.v_status = "V-OK") => verdict.kind = "Sweet Spot"
              /\ b.offset > 300 => verdict.kind = "Horizontal Mismatch"
              /\ (b.offset <= 300 /\ b.v_status # "V-OK") => verdict.kind = "Vertical Mismatch"
              /\ verdict.site = b.site_id
              /\ verdict.cell = b.cell_name
    /\ (pc = "error" /\ cells # <<>>) => BestCell(cells).offset = NoOffset

(* A returned verdict on a best cell that is off on both axes *)
C1_Witness ==
    /\ pc = "done"
    /\ BestCell(cells).offset > 300
    /\ BestCell(cells).v_status # "V-OK"
    /\ verdict.kind = "Horizontal Mismatch"

(* The site of row i of the table, once the columns are mapped *)
SiteOfRow(i) == Field(df, df.rows[i], colmap.site)

(* The least distance of a row of site s, and the first row at it *)
SiteDistance(s) == SetMin({distance_km[i] : i \in {j \in 1..Len(df.rows) : SiteOfRow(j) = s}})
NearestRow(s) ==
    SetMin({i \in 1..Len(df.rows) : SiteOfRow(i) = s /\ distance_km[i] = SiteDistance(s)})

(* Site s comes before site t: nearer, or as near and earlier in the table *)
SiteBefore(s, t) ==
    \/ SiteDistance(s) < SiteDistance(t)
    \/ SiteDistance(s) = SiteDistance(t) /\ NearestRow(s) < NearestRow(t)

(* C2: for a positive site_limit the sites analyze processes are the       *)
(* min(site_limit, number of distinct sites) nearest distinct sites, in    *)
(* increasing distance with equal distances in table order, and the cells  *)
(* are exactly the rows of those sites.                                    *)
C2_NearestDistinctSites ==
    (site_limit >= 1 /\ pc \in {"classifying", "ranking", "verdict", "returning", "done"}) =>
        LET all == {SiteOfRow(i) : i \in 1..Len(df.rows)}
            n   == IF site_limit <= Cardinality(all) THEN site_limit ELSE Cardinality(all)
        IN  /\ Len(sites) = n
            /\ Range(sites) \subseteq all
            /\ \A k, l \in 1..Len(sites) : k < l => SiteBefore(sites[k], sites[l])
            /\ \A t \in all \ Range(sites) : \A k \in 1..Len(sites) : SiteBefore(sites[k], t)
            /\ pc # "classifying" =>
                  /\ {cells[k].row : k \in 1..Len(cells)}
                        = {i \in 1..Len(df.rows) : SiteOfRow(i) \in Range(sites)}
                  /\ \A k, l \in 1..Len(cells) : k # l => cells[k].row # cells[l].row

(* C3: the cell the verdict names has the smallest offset of the returned  *)
(* cells, and no returned cell with that offset is nearer.                 *)
C3_BestCellNearestOnTies ==
    pc \in {"returning", "done"} =>
        \E k \in 1..Len(cells) :
            /\ cells[k].site_id = verdict.site
            /\ cells[k].cell_name = verdict.cell
            /\ \A j \in 1..Len(cells) :
                  /\ cells[k].offset <= cells[j].offset
                  /\ cells[j].offset = cells[k].offset => cells[k].distance <= cells[j].distance

(* C4: the horizontal status of every cell is a function of its offset     *)
(* alone: DIRECT up to 30 degrees, SIDE above 30 up to 70, Fare SIDE above *)
(* 70 up to 120, BACK above 120, and N/A when the offset is undefined; the *)
(* bounds 30, 70 and 120 belong to the lower class.                        *)
C4_HorizontalStatus ==
    \A k \in 1..Len(cells) :
        LET c == cells[k]
        IN  IF c.offset = NoOffset THEN c.h_status = "N/A"
            ELSE /\ c.h_status = "DIRECT" <=> c.offset <= 300
                 /\ c.h_status = "SIDE" <=> (300 < c.offset /\ c.offset <= 700)
                 /\ c.h_status = "Fare SIDE" <=> (700 < c.offset /\ c.offset <= 1200)
                 /\ c.h_status = "BACK" <=> c.offset > 1200

(* A returned cell exactly 30.0 degrees off, classed DIRECT *)
C4_Witness ==
    /\ pc = "done"
    /\ \E k \in 1..Len(cells) : cells[k].offset = 300 /\ cells[k].h_status = "DIRECT"

(* C5: the vertical status of every cell follows d = |req_tilt - e_tilt|:  *)
(* V-OK up to 3 degrees, EDGE above 3 up to 6, MISSED above 6.             *)
C5_VerticalStatus ==
    \A k \in 1..Len(cells) :
        LET c == cells[k]
            d == IF c.req_tilt >= c.e_tilt THEN c.req_tilt - c.e_tilt
                 ELSE c.e_tilt - c.req_tilt
        IN  c.e_tilt # NaNTilt =>
               /\ c.v_status = "V-OK" <=> d <= 30
               /\ c.v_status = "EDGE" <=> (30 < d /\ d <= 60)
               /\ c.v_status = "MISSED" <=> d > 60

(* A returned cell whose tilts differ by exactly 6.0 degrees, classed EDGE *)
C5_Witness ==
    /\ pc = "done"
    /\ \E k \in 1..Len(cells) :
          cells[k].req_tilt - cells[k].e_tilt = 60 /\ cells[k].v_status = "EDGE"

(* a's offset is not after b's: a defined offset is before an undefined    *)
(* one, two defined offsets compare as numbers.                            *)
OffsetNotAfter(a, b) ==
    \/ b.offset = NoOffset
    \/ a.offset # NoOffset /\ a.offset <= b.offset

DistanceNotAfter(a, b) == a.distance <= b.distance

(* `top` holds the first three (all, if fewer) of the cells cs under the   *)
(* order NotAfter, in that order.                                          *)
IsTopThree(top, cs, NotAfter(_, _)) ==
    /\ Len(top) = (IF Len(cs) <= 3 THEN Len(cs) ELSE 3)
    /\ Range(top) \subseteq Range(cs)
    /\ \A k, l \in 1..Len(top) : k < l => top[k] # top[l] /\ NotAfter(top[k], top[l])
    /\ \A c \in Range(cs) \ Range(top) : \A k \in 1..Len(top) : NotAfter(top[k], c)

(* C6: once the rankings are made, top_distance holds the 3 closest cells  *)
(* (all of them when there are fewer) in increasing distance, and          *)
(* top_offset the 3 cells of smallest offset in increasing offset, a cell  *)
(* of undefined offset after every cell of defined offset.                 *)
C6_TopRankings ==
    (pc \in {"verdict", "returning", "done"} \/ (pc = "error" /\ cells # <<>>)) =>
        /\ IsTopThree(top_distance, cells, DistanceNotAfter)
        /\ IsTopThree(top_offset, cells, OffsetNotAfter)

(* A result of four cells whose first cell is not among the three closest *)
C6_Witness ==
    /\ pc = "done"
    /\ Len(cells) = 4
    /\ Len(top_distance) = 3
    /\ Len(top_offset) = 3
    /\ cells[1] \notin Range(top_distance)

(* C7: when no design table is located, analyze ends with an error of kind *)
(* DataUnavailable handed to the caller, and no later step has run.        *)
C7_DataUnavailable ==
    (file_path = None /\ pc # "loading") =>
        /\ pc = "error"
        /\ outcome.kind = "raise"
        /\ outcome.exc = "DataUnavailable"
        /\ colmap = NoMap /\ distance_km = <<>> /\ sites = <<>> /\ cells = <<>>
        /\ top_distance = <<>> /\ top_offset = <<>> /\ verdict = NoVerdict

(* C8: when the table has no header resolving to latitude or none          *)
(* resolving to longitude, analyze ends with the mapping failure of line   *)
(* 87 with no distance computed and no cell returned; when both resolve,   *)
(* that failure never happens.                                             *)
C8_SchemaMismatch ==
    (file_path # None /\ pc \notin {"loading", "mapping"}) =>
        IF ~HasHeaderFor(df, "lat") \/ ~HasHeaderFor(df, "lon")
        THEN /\ pc = "error"
             /\ outcome = Raised("ValueError", 87)
             /\ distance_km = <<>> /\ sites = <<>> /\ cells = <<>>
        ELSE outcome # Raised("ValueError", 87)

(* The mapping failure on a table with a latitude and no longitude header *)
C8_Witness ==
    /\ pc = "error"
    /\ outcome = Raised("ValueError", 87)
    /\ HasHeaderFor(df, "lat")
    /\ ~HasHeaderFor(df, "lon")

(* C9: a table with a row whose coordinate is text aborts only for a       *)
(* missing table or a mapping failure: the row is skipped.                 *)
C9_MalformedRowSkipped ==
    LET textual == \E i \in 1..Len(df.rows) : \E k \in 1..Len(df.rows[i]) :
                       /\ IsStr(df.rows[i][k])
                       /\ \/ HasHeaderFor([cols |-> <<df.cols[k]>>], "lat")
                          \/ HasHeaderFor([cols |-> <<df.cols[k]>>], "lon")
    IN  (textual /\ pc = "error") =>
            \/ outcome = ReturnedNone
            \/ outcome = Raised("ValueError", 87)

(* C10: when the table has no azimuth column or a processed row has no     *)
(* azimuth value, the cells of such rows have an undefined offset and the  *)
(* status N/A, and the call does not raise.                                *)
C10_AzimuthAbsent ==
    (/\ file_path # None
     /\ pc \notin {"loading", "mapping"}
     /\ ~MappingFails(colmap)
     /\ site_limit >= 1
     /\ \A i \in 1..Len(df.rows) : ~CoordUnparsable(df, colmap, df.rows[i])
     /\ \/ colmap.azi = NoCol
        \/ \E i \in 1..Len(df.rows) : IsNaN(AzimuthOf(i))) =>
        /\ pc # "error"
        /\ \A k \in 1..Len(cells) :
              (colmap.azi = NoCol \/ IsNaN(AzimuthOf(cells[k].row))) =>
                  cells[k].offset = NoOffset /\ cells[k].h_status = "N/A"

----------------------------------------------------------------------------
(* Properties of fetch_ericsson_e_tilt_group.                              *)

(* The resolver has returned or raised *)
ResolverDone == fn = "fetch_ericsson_e_tilt_group" /\ ret # Pending

(* The last character of the cell name, in upper case; "" for no name *)
LastCharOf(cell_name) ==
    IF Len(PyStr(cell_name)) = 0 THEN ""
    ELSE UpperChar(PyStr(cell_name)[Len(PyStr(cell_name))])

(* C11: the resolver never raises, whatever the site and cell identifiers  *)
(* (the empty cell identifier included), and it gives None when the last   *)
(* character is in neither map, when there is no configuration table and   *)
(* when the table lacks one of the columns the resolver reads.             *)
C11_ResolverNeverRaises ==
    ResolverDone =>
        /\ ret.kind # "raise"
        /\ (\/ sector_map(LastCharOf(arg.cell_name)) = 0
            \/ band_map(LastCharOf(arg.cell_name)) = <<>>
            \/ ~arg.cmt.file
            \/ arg.cmt.cols # CmColumns) => ret.kind = "none"

(* Every field of every row of the table has the type of its column *)
CmWellTyped(cmt) ==
    /\ cmt.file
    /\ cmt.cols = CmColumns
    /\ \A i \in 1..Len(cmt.rows) :
          /\ IsStr(cmt.rows[i].NodeId)
          /\ IsNum(cmt.rows[i].AntennaUnitGroupId)
          /\ IsStr(cmt.rows[i].AntennaNearUnitId)
          /\ IsNum(cmt.rows[i].electricalAntennaTilt)

(* C12: on a well-typed table and a cell name whose last character is in   *)
(* both maps, the resolver returns the tilt field divided by 10 and the    *)
(* band identifier of the first row, in table order, whose NodeId contains *)
(* the site id, whose group equals the sector and whose band identifier    *)
(* contains the band tag, and None when there is no such row; a last       *)
(* character in one map only gives None.                                   *)
C12_FirstMatchingRow ==
    (ResolverDone /\ CmWellTyped(arg.cmt) /\ LastCharOf(arg.cell_name) # "") =>
        LET sector == sector_map(LastCharOf(arg.cell_name))
            band   == band_map(LastCharOf(arg.cell_name))
            rows   == arg.cmt.rows
            hits   == {i \in 1..Len(rows) :
                          /\ Contains(rows[i].NodeId.s, PyStr(arg.site_id))
                          /\ rows[i].AntennaUnitGroupId.v = sector
                          /\ Contains(rows[i].AntennaNearUnitId.s, band)}
        IN  IF sector = 0 \/ band = <<>> \/ hits = {} THEN ret.kind = "none"
            ELSE /\ ret.kind = "ok"
                 /\ 10 * ret.e_tilt = 10 * rows[SetMin(hits)].electricalAntennaTilt.v
                 /\ ret.band_id = rows[SetMin(hits)].AntennaNearUnitId

----------------------------------------------------------------------------
(* Properties of a request from its first line, and of the table lookup.   *)

(* C13: a request ends either with a result or with one of the two fatal   *)
(* errors, a missing table or a mapping failure; it never ends by another  *)
(* exception.                                                              *)
C13_TypedTermination ==
    pc = "error" =>
        /\ outcome.kind = "raise"
        /\ outcome.exc \in {"DataUnavailable", "SchemaMismatch"}

(* C14: with a site_limit that is not positive the engine is stopped       *)
(* before it processes a site: it never gets past its site loop to the     *)
(* rankings, the verdict or a result.                                      *)
C14_LimitValidated ==
    site_limit <= 0 => pc \notin {"verdict", "returning", "done"}

(* C15: the lookup accepts the call analyze makes (category, prefix,       *)
(* technology) as it accepts the two-argument calls, and returns the most  *)
(* recent clean file of the folder that matches, or none when the folder   *)
(* is missing or nothing matches.                                          *)
C15_LookupAcceptsCall ==
    (fn = "get_latest_clean_file" /\ ret # Pending) =>
        LET files == {f \in arg.archive.files :
                         f.kind = "clean" /\ Contains(f.name, arg.args[2])}
        IN  /\ ret.kind # "raise"
            /\ IF ~arg.archive.exists \/ files = {} THEN ret.kind = "none"
               ELSE /\ ret.kind = "file"
                    /\ ret.file \in files
                    /\ \A g \in files : ret.file.stamp >= g.stamp

----------------------------------------------------------------------------
(* Properties of _find_start_params.                                       *)

SnifferDone == fn = "_find_start_params" /\ ret.kind = "result"

(* The lines of the file that decode under enc ahead of any decode error *)
ReadableUnder(enc) ==
    LET v == ViewUnder(arg.file, enc)
    IN  IF v.fails THEN SubSeq(v.lines, 1, v.ok_lines) ELSE v.lines

(* The indices, from 0, of the readable lines under enc with a keyword *)
HeaderRows(enc) ==
    {i - 1 : i \in {j \in 1..Len(ReadableUnder(enc)) :
                       \E k \in 1..Len(arg.keywords) :
                           Contains(ReadableUnder(enc)[j], arg.keywords[k])}}

(* C16: when some encoding yields a readable line with a keyword, the      *)
(* sniffer returns the first of utf-16, utf-8, latin-1 that does, a decode *)
(* error under an earlier encoding notwithstanding, and the index of the   *)
(* first such line under that encoding.                                    *)
C16_EncodingOrder ==
    SnifferDone =>
        /\ HeaderRows("utf-16") # {} =>
              ret.enc = "utf-16" /\ ret.i = SetMin(HeaderRows("utf-16"))
        /\ (HeaderRows("utf-16") = {} /\ HeaderRows("utf-8") # {}) =>
              ret.enc = "utf-8" /\ ret.i = SetMin(HeaderRows("utf-8"))
        /\ (HeaderRows("utf-16") = {} /\ HeaderRows("utf-8") = {}
              /\ HeaderRows("latin-1") # {}) =>
              ret.enc = "latin-1" /\ ret.i = SetMin(HeaderRows("latin-1"))

(* The header found at row 3 under utf-8 after utf-16 failed to decode,    *)
(* in a file that has a header line under latin-1 as well                  *)
C16_Witness ==
    /\ SnifferDone
    /\ arg.file.utf16.fails
    /\ HeaderRows("utf-8") # {}
    /\ HeaderRows("latin-1") # {}
    /\ ret.enc = "utf-8"
    /\ ret.i = 3

(* The header line the sniffer stopped at *)
FoundHeader == ReadableUnder(ret.enc)[ret.i + 1]

(* C17: the delimiter of the header line is the tab if the line has one,   *)
(* otherwise what csv.Sniffer gives, and when csv.Sniffer fails the        *)
(* semicolon if the line has one, else the comma.                          *)
C17_DelimiterPriority ==
    (SnifferDone /\ \E e \in {"utf-16", "utf-8", "latin-1"} : HeaderRows(e) # {}) =>
        ret.delimiter =
            IF \E i \in 1..Len(FoundHeader) : FoundHeader[i] = Tab THEN Tab
            ELSE IF Sniff(FoundHeader) # SniffError THEN Sniff(FoundHeader)
            ELSE IF \E i \in 1..Len(FoundHeader) : FoundHeader[i] = ";" THEN ";"
            ELSE ","

(* C18: when no encoding yields a readable line with a keyword, the        *)
(* sniffer returns (0, ';', utf-8); a run ends in no other way than by     *)
(* returning.                                                              *)
C18_SnifferDefault ==
    fn = "_find_start_params" =>
        /\ ret.kind \in {"scanning", "result"}
        /\ ret.kind = "scanning" => ret.k \in 1..4
        /\ (ret.kind = "result" /\ \A e \in {"utf-16", "utf-8", "latin-1"} : HeaderRows(e) = {}) =>
              ret.i = 0 /\ ret.delimiter = ";" /\ ret.enc = "utf-8"

(* The default returned for an empty file *)
C18_Witness ==
    /\ SnifferDone
    /\ arg.file.utf16.lines = <<>> /\ ~arg.file.utf16.fails
    /\ arg.file.utf8.lines = <<>> /\ ~arg.file.utf8.fails
    /\ arg.file.latin1.lines = <<>>
    /\ ret = [kind |-> "result", i |-> 0, delimiter |-> ";", enc |-> "utf-8"]

----------------------------------------------------------------------------
(* Properties of find_standard_col.                                        *)

(* Header i of the call, lower-cased, contains a keyword of the role *)
HeaderMatches(i) ==
    \E k \in 1..Len(mapping(arg.target_type)) :
        Contains(Lower(arg.df_columns[i]), mapping(arg.target_type)[k])

(* C19: find_standard_col returns the leftmost header whose lower-cased    *)
(* text contains any keyword of the role, whatever the keyword's place in  *)
(* the role's list; with no such header it returns the default, which is   *)
(* None when none is given.  For the headers Site_ID, Lat (deg),           *)
(* Lon (deg), Azimuth_deg and the role latitude it returns Lat (deg).      *)
C19_LeftmostHeader ==
    (fn = "find_standard_col" /\ ret # Pending) =>
        /\ \A i \in 1..Len(arg.df_columns) :
              (HeaderMatches(i) /\ \A j \in 1..(i - 1) : ~HeaderMatches(j)) =>
                  ret.col = arg.df_columns[i]
        /\ (\A i \in 1..Len(arg.df_columns) : ~HeaderMatches(i)) => ret.col = arg.default
        /\ (arg.df_columns = ExampleHeaders /\ arg.target_type = "lat") =>
              ret.col = <<"L", "a", "t", " ", "(", "d", "e", "g", ")">>

(* A header matched by the role's fourth keyword returned ahead of a later *)
(* header matched by the first                                             *)
C19_Witness ==
    /\ fn = "find_standard_col"
    /\ ret # Pending
    /\ arg.target_type = "lat"
    /\ arg.df_columns[1] = <<"N", "O", "R", "T", "H">>
    /\ Len(arg.df_columns) >= 2
    /\ arg.df_columns[2] = <<"l", "a", "t", "i", "t", "u", "d", "e">>
    /\ ret.col = <<"N", "O", "R", "T", "H">>

----------------------------------------------------------------------------
(* Properties of calculate_angle_offset.                                   *)

OffsetDone == fn = "calculate_angle_offset" /\ ret # Pending

(* min(|a-b| mod 360, 360 - (|a-b| mod 360)) in 1/10000 degree *)
MinimalDifference ==
    LET d == Abs(arg.azimuth.v * 1000 - arg.bearing) % 3600000
    IN  IF d <= 3600000 - d THEN d ELSE 3600000 - d

(* C20 as stated: for a defined azimuth the offset equals the minimal      *)
(* absolute angular difference itself; for an undefined azimuth it is      *)
(* undefined.                                                              *)
C20_ExactOffset ==
    OffsetDone =>
        IF IsNum(arg.azimuth)
        THEN ret.offset * 1000 = MinimalDifference
        ELSE ret.offset = NoOffset

(* C20: for a defined azimuth a and bearing b the offset is the minimal    *)
(* absolute angular difference min(|a-b| mod 360, 360 - (|a-b| mod 360))   *)
(* rounded to one decimal place, so it lies in [0, 180], is 0 for b = a    *)
(* and 180 for b = (a + 180) mod 360; for an undefined azimuth it is       *)
(* undefined.                                                              *)
C20_RoundedOffset ==
    OffsetDone =>
        IF IsNum(arg.azimuth)
        THEN /\ ret.offset \in 0..1800
             /\ Abs(ret.offset * 1000 - MinimalDifference) <= 500
             /\ arg.bearing = arg.azimuth.v * 1000 => ret.offset = 0
             /\ arg.bearing = (arg.azimuth.v * 1000 + 1800000) % 3600000 =>
                    ret.offset = 1800
        ELSE ret.offset = NoOffset

(* A difference above 180 degrees folded back and then rounded *)
C20_Witness ==
    /\ OffsetDone
    /\ IsNum(arg.azimuth)
    /\ Abs(arg.azimuth.v * 1000 - arg.bearing) % 3600000 > 1800000
    /\ ret.offset * 1000 # MinimalDifference
    /\ ret.offset \in 1..1799

----------------------------------------------------------------------------
(* Properties of calculate_required_tilt.                                  *)

TiltDone == fn = "calculate_required_tilt" /\ ret # Pending

(* C21 as stated: the tilt at distance 0 is 0, and for a fixed positive    *)
(* height the rounded tilt is strictly decreasing in the distance.         *)
C21_StrictlyDecreasing ==
    TiltDone =>
        /\ arg.d1 = 0 => ret.t1 = 0
        /\ (0 < arg.d1 /\ arg.d1 < arg.d2) => ret.t1 > ret.t2

(* C21: the tilt at distance 0 is 0, and for a fixed positive height the   *)
(* tilt, rounded to one decimal, never increases with the distance: for    *)
(* positive d1 < d2 the tilt at d1 is at least the tilt at d2.             *)
C21_NonIncreasing ==
    TiltDone =>
        /\ arg.d1 = 0 => ret.t1 = 0
        /\ (0 < arg.d1 /\ arg.d1 < arg.d2) => ret.t1 >= ret.t2

(* Two distances about 5 m apart whose tilts round to the same tenth *)
C21_Witness ==
    /\ TiltDone
    /\ 0 < arg.d1
    /\ arg.d1 < arg.d2
    /\ ret.t1 = ret.t2
    /\ ret.t1 > 0

----------------------------------------------------------------------------
(* Properties of repeated and concurrent calls of analyze.                 *)

C23_NoInterference ==
    (fn = "requests" /\ ret.phase = "pair" /\ Ended(Locals)) =>
        ResultOf(Locals) = ret.alone[ret.me]

(* Both threads returned a result, the requests differ, and one thread     *)
(* was switched out in mid-run while the other was in mid-run              *)
C23_Witness ==
    /\ fn = "requests"
    /\ ret.phase = "pair"
    /\ ret.mixed
    /\ pc = "done"
    /\ ret.parked.pc = "done"
    /\ arg.reqs[1] # arg.reqs[2]
    /\ ResultOf(Locals) # ResultOf(ret.parked)

----------------------------------------------------------------------------
(* Properties of the defaults of analyze.                                  *)

(* Line 121 took the default height for row i *)
HbaDefaulted(i) ==
    colmap.hba = NoCol \/ IsNaN(Field(df, df.rows[i], colmap.hba))

(* Lines 126-130 took the default tilt for row i *)
TiltDefaulted(i) == TiltGroupOf(i).kind # "ok"

(* The record of lines 158-172 for row i had the resolver returned the     *)
(* tilt e_tilt and the table held the height hba                           *)
CellDataWith(i, hba, e_tilt) ==
    LET req_tilt == calculate_required_tilt(hba, distance_km[i])
    IN  [CellData(i) EXCEPT !.req_tilt = req_tilt,
                            !.e_tilt   = e_tilt,
                            !.v_status = VStatusOf(req_tilt, e_tilt)]

(* C24: a cell whose height was defaulted to 30 m or whose tilt was         *)
(* defaulted to 0 is recorded as such in the result: its record differs    *)
(* from the record of the same cell with a real height of 30 m and a real  *)
(* tilt of 0 degrees.                                                      *)
C24_DefaultsRecorded ==
    pc = "done" =>
        \A k \in 1..Len(cells) :
            (HbaDefaulted(cells[k].row) \/ TiltDefaulted(cells[k].row)) =>
                cells[k] # CellDataWith(cells[k].row, DefaultHba, DefaultETilt)

----------------------------------------------------------------------------
(* Properties of the history list.                                         *)

(* At most 10 entries, a later entry put on the list earlier *)
CappedAndOrdered(h) ==
    /\ Len(h) <= 10
    /\ \A i, j \in 1..Len(h) : i < j => h[i].at > h[j].at

(* C25: after any main-menu operations, from any history file, the list in *)
(* memory and the list last saved hold at most 10 contexts, the most       *)
(* recent first.                                                           *)
C25_HistoryCapped ==
    fn = "main" =>
        /\ CappedAndOrdered(ret.history)
        /\ ret.saved # NotSaved => CappedAndOrdered(ret.saved)

----------------------------------------------------------------------------
(* Properties of the analysis menu and the router.                         *)

RcaDone == fn = "run_fwa_analysis" /\ ret # Pending

(* C26: execute_selected_rca called with a code that has no registered     *)
(* analyst, such as GEN_INT, reports that no analyst is registered and     *)
(* returns, without raising and without a result table.                    *)
C26_UnregisteredCode ==
    (RcaDone /\ ret.code # "" /\ ret.code \notin Router) =>
        /\ ret.out.kind = "return"
        /\ ret.out.printed = {"no analyst"}

(* The typed text is a decimal number *)
IsNumberText(text) ==
    /\ Len(text) > 0
    /\ \A i \in 1..Len(text) : \E d \in 1..10 : Digits[d] = text[i]

(* C28: with N analyses listed, run_fwa_analysis dispatches an analysis    *)
(* only when the input is an integer in 1..N, and then the analysis shown  *)
(* at that number; the input N+1 or 'b' goes back to the main menu; every  *)
(* other input, 0 included, is reported as an invalid selection and        *)
(* dispatches nothing.                                                     *)
C28_MenuDispatch ==
    RcaDone =>
        LET N      == Len(ret.offered)
            listed == IsNumberText(arg.choice) /\ IntOf(arg.choice) \in 1..N
            back   == arg.choice = StrOf(N + 1) \/ Lower(arg.choice) = <<"b">>
        IN  /\ ret.code # "" => (listed /\ ret.code = ret.offered[IntOf(arg.choice)])
            /\ back => ret.pc = "back"
            /\ (~listed /\ ~back) => (ret.pc = "invalid" /\ ret.code = "")

(* code is on the list shown *)
Offered(code) == \E i \in 1..Len(ret.offered) : ret.offered[i] = code

(* C29: GEO_DIST is offered exactly when the context has a latitude and a  *)
(* longitude that are not None, a coordinate of 0 included; LTE_COV,       *)
(* NR_COV and ENDC_FAIL exactly when their PCI values are not None.        *)
C29_OfferedAnalyses ==
    RcaDone =>
        /\ Offered("GEO_DIST") <=>
              (arg.context.latitude # PyNone /\ arg.context.longitude # PyNone)
        /\ Offered("LTE_COV") <=> arg.context.pci_lte # PyNone
        /\ Offered("NR_COV") <=> arg.context.pci_nr # PyNone
        /\ Offered("ENDC_FAIL") <=>
              (arg.context.pci_lte # PyNone /\ arg.context.pci_nr # PyNone)

----------------------------------------------------------------------------
(* Properties of the two verdicts of analyze.                              *)

(* C27: in CLI mode the verdict analyze prints is decided on the same cell *)
(* as the verdict in the result it returns and gives the same outcome      *)
(* (sweet spot, horizontal mismatch or vertical mismatch), for every       *)
(* table with one or more returned cells.                                  *)
C27_SameVerdict ==
    (pc = "done" /\ ~is_web /\ Len(cells) >= 1) =>
        /\ cells[Len(cells)] = BestCell(cells)
        /\ cli_verdict = verdict.kind

----------------------------------------------------------------------------
(* Properties of process_files.                                            *)

FilesDone == fn = "process_files" /\ ret.pc \in {"done", "raised"}

(* The file name matches the prefix and one of the extensions *)
Matches(name) ==
    \E k \in 1..Len(extensions) :
        name \in GlobMatch({name}, arg.task.prefix, extensions[k])

(* The entries the run wrote with the given kind and name *)
Written(kind, name) ==
    {k \in 1..Len(ret.log) : ret.log[k].kind = kind /\ ret.log[k].name = name}

(* C30: after process_files, every file matching the prefix that was read  *)
(* into a table with rows has exactly one clean_<timestamp>_<name>.csv and *)
(* one raw_<timestamp>_<name> in the archive and is gone from the folder;  *)
(* every file that failed to read or read as empty is in place with        *)
(* nothing written for it; no file outside the match is moved or written.  *)
C30_ArchiveFrame ==
    FilesDone =>
        \A f \in arg.folder :
            LET name == f[1]
                csv  == name \o <<".", "c", "s", "v">>
            IN  IF Matches(name) /\ name \in ret.read /\ f[2] = "table"
                THEN /\ Cardinality(Written("clean", csv)) = 1
                     /\ Cardinality(Written("raw", name)) = 1
                     /\ \A k \in Written("clean", csv) \cup Written("raw", name) :
                           ret.log[k] \in ret.archive
                     /\ name \notin ret.folder
                ELSE /\ name \in ret.folder
                     /\ Written("clean", csv) = {}
                     /\ Written("raw", name) = {}

(* Two matching files were read: one with rows, archived, and one empty,   *)
(* left in place, next to an archive of an earlier run                     *)
C30_Witness ==
    /\ FilesDone
    /\ ret.pc = "done"
    /\ arg.archive # {}
    /\ Cardinality(ret.read) = 2
    /\ Len(ret.log) = 2
    /\ \E f \in arg.folder : f[2] = "empty" /\ f[1] \in ret.read /\ f[1] \in ret.folder

====
